---- MODULE Spec2Model ----
\* seagliderOG1: the per-dive pipeline of convertOG1.process_dataset
\* (GPS fusion, dive number, profile number, phase) and the dive-state
\* functions of tools.py called on a hand-built stream, as the tests do.
\*
\* A dataset is a function from field names to columns; every column is a
\* sequence along N_MEASUREMENTS.  Indices are 1-based here (0-based in the
\* source), so the numpy slice a[lo:hi+1] is the inclusive range lo..hi.
\* A missing float is NaN.  dive_num_cast and PROFILE_NUMBER hold halves
\* (dive + 0.5), so these two columns are stored in units of one half:
\* the float x is stored as the integer 2*x.
EXTENDS Integers, Sequences, FiniteSets, TLC

\* ---------------------------------------------------------------- bounds
\* records of a hand-built stream
MaxLen == 4
\* records of a stream before a caller adds one
MaxEditLen == 2
\* measurements of a dive record
MaxMeas == 2
\* GPS fixes of a dive record
MaxFix == 2
\* fields of a record given to the splitter
MaxFields == 3
\* fields of the measurement axis given to the normalizer
MaxNormFields == 3

\* the longest stream that assign_phase is called on by itself
MaxPhaseLen == 3
\* names of a list given to the file selection
MaxFiles == 3

\* ------------------------------------------------------------- constants
NaN == -1

VARIABLES pc, renamed_ds, gps_info, dive_number, ds_new, before, edited,
          ds1_base, split_ds, scalars, field_dims, attrs, attr_warnings,
          printed, logged, unit_conversion,
          ds_attrs, values_to_append, now, ordered_attributes, reconciled_again,
          files_given, file_list, start_profile, end_profile, filtered_files

\* the state of the splitter and of the normalizer: the input record, its
\* groups, the three scalar sub-groups, the dimensions and the attributes of
\* the fields of renamed_ds, the returned warnings, the lines written by
\* print and by _log.warning, and the unit-conversion table in use
norm_vars == <<ds1_base, split_ds, scalars, field_dims, attrs, attr_warnings,
               printed, logged, unit_conversion>>

\* the state of the metadata reconciler and of the file selection: the
\* metadata of the input, the contributor values to append, the clock, the
\* reconciled metadata and the metadata reconciled from it; the list of
\* filenames as given and as the selection leaves it, the bounds on the dive
\* number and the filenames selected
meta_vars == <<ds_attrs, values_to_append, now, ordered_attributes, reconciled_again,
               files_given, file_list, start_profile, end_profile, filtered_files>>

vars == <<pc, renamed_ds, gps_info, dive_number, ds_new, before, edited,
          ds1_base, split_ds, scalars, field_dims, attrs, attr_warnings,
          printed, logged, unit_conversion,
          ds_attrs, values_to_append, now, ordered_attributes, reconciled_again,
          files_given, file_list, start_profile, end_profile, filtered_files>>

\* ---------------------------------------------------------------- helpers
SetMin(S) == CHOOSE m \in S : \A x \in S : m <= x

SetMax(S) == CHOOSE m \in S : \A x \in S : x <= m

\* length of the N_MEASUREMENTS axis of a dataset
dims(ds) == IF DOMAIN ds = {} THEN 0 ELSE Len(ds[CHOOSE f \in DOMAIN ds : TRUE])

\* np.full(n, v)
full(n, v) == [i \in 1..n |-> v]

\* ds[name] = column
assign(ds, name, column) == [f \in DOMAIN ds \cup {name} |-> IF f = name THEN column ELSE ds[f]]

\* ds.drop_vars(name)
drop_vars(ds, name) == [f \in DOMAIN ds \ {name} |-> ds[f]]

\* a[lo:hi+1] = v
setslice(a, lo, hi, v) == [i \in DOMAIN a |-> IF lo <= i /\ i <= hi THEN v ELSE a[i]]

\* np.unique: the distinct values, ascending
RECURSIVE unique(_)
unique(S) == IF S = {} THEN <<>> ELSE <<SetMin(S)>> \o unique(S \ {SetMin(S)})

\* ------------------------------------------------------------ GPS fusion
\* mutant: the mirrored GPS fields are left empty
gps_side_stream_unmirrored(gps_ds) ==
  LET n == Len(gps_ds.log_gps_lat)
  IN  [f \in {"LONGITUDE", "LATITUDE", "TIME", "DEPTH",
              "LATITUDE_GPS", "LONGITUDE_GPS", "TIME_GPS"} |->
         CASE f = "LONGITUDE" -> gps_ds.log_gps_lon
           [] f = "LATITUDE" -> gps_ds.log_gps_lat
           [] f = "TIME" -> gps_ds.log_gps_time
           [] f = "DEPTH" -> full(n, 0)
           [] OTHER -> full(n, NaN)]

\* the side stream built from the gps_info group
gps_side_stream(gps_ds) ==
  LET n == Len(gps_ds.log_gps_lat)
      LONGITUDE == gps_ds.log_gps_lon
      LATITUDE == gps_ds.log_gps_lat
      TIME == gps_ds.log_gps_time
  IN  [f \in {"LONGITUDE", "LATITUDE", "TIME", "DEPTH",
              "LATITUDE_GPS", "LONGITUDE_GPS", "TIME_GPS"} |->
         CASE f = "LONGITUDE" -> LONGITUDE
           [] f = "LATITUDE" -> LATITUDE
           [] f = "TIME" -> TIME
           [] f = "DEPTH" -> full(n, 0)
           [] f = "LATITUDE_GPS" -> LATITUDE
           [] f = "LONGITUDE_GPS" -> LONGITUDE
           [] f = "TIME_GPS" -> TIME]

\* a column of one operand of xr.concat; a field the operand lacks is filled
concat_column(ds, f) == IF f \in DOMAIN ds THEN ds[f] ELSE full(dims(ds), NaN)

\* xr.concat([a, b], dim='N_MEASUREMENTS')
concat(a, b) == [f \in DOMAIN a \cup DOMAIN b |-> concat_column(a, f) \o concat_column(b, f)]

\* the stable ascending order of the indices of a key column (np.lexsort):
\* order[k] is the index of the record that comes k-th
sort_order(key) ==
  LET rank(i) == 1 + Cardinality({j \in DOMAIN key :
                       key[j] < key[i] \/ (key[j] = key[i] /\ j < i)})
  IN  [k \in DOMAIN key |-> CHOOSE i \in DOMAIN key : rank(i) = k]

\* one column after ds.sortby: every column is indexed by the same order
sortby_column(column, order) == [k \in DOMAIN column |-> column[order[k]]]

\* mutant: one record is kept per distinct value of the key
sortby_unique(ds, name) ==
  LET order == sort_order(ds[name])
      keep == unique({k \in DOMAIN order :
                        \A j \in 1..(k - 1) : ds[name][order[j]] # ds[name][order[k]]})
  IN  [f \in DOMAIN ds |-> [k \in DOMAIN keep |-> ds[f][order[keep[k]]]]]

\* mutant: only the key column is put in order
sortby_key_only(ds, name) ==
  LET order == sort_order(ds[name])
  IN  [f \in DOMAIN ds |-> IF f = name THEN sortby_column(ds[f], order) ELSE ds[f]]

\* ds.sortby(name)
sortby(ds, name) == LET order == sort_order(ds[name])
                    IN  [f \in DOMAIN ds |-> sortby_column(ds[f], order)]

add_gps_info_to_dataset(ds, gps_ds) == sortby(concat(ds, gps_side_stream(gps_ds)), "TIME")

\* ------------------------------------------------------------ dive number
add_dive_number(ds, dive) == assign(ds, "divenum", full(dims(ds), dive))

\* ------------------------------------------------------ dive-state engine
\* mutant: the pressure maximum and the fixes are taken over the whole stream
dive_range_whole(divenum, dive) == <<1, Len(divenum)>>

\* dive_indices[0] and dive_indices[-1] of np.where(ds[divenum_str] == dive)
dive_range(divenum, dive) ==
  LET dive_indices == {i \in DOMAIN divenum : divenum[i] = dive}
  IN  <<SetMin(dive_indices), SetMax(dive_indices)>>

\* mutant: np.max, which is NaN as soon as one value is NaN
nanmax_propagate(PRES, start_index, end_index) ==
  LET values == {PRES[i] : i \in start_index..end_index}
  IN  IF NaN \in values THEN NaN ELSE SetMax(values)

\* np.nanmax(PRES[start:end+1]): NaN only when every value is NaN
nanmax(PRES, start_index, end_index) ==
  LET valid == {PRES[i] : i \in start_index..end_index} \ {NaN}
  IN  IF valid = {} THEN NaN ELSE SetMax(valid)

\* mutant: the offset of the last True
argmax_eq_last(PRES, start_index, end_index, pmax) ==
  LET hits == {i \in start_index..end_index : pmax # NaN /\ PRES[i] = pmax}
  IN  IF hits = {} THEN 0 ELSE SetMax(hits) - start_index

\* np.argmax(PRES[start:end+1] == pmax): the offset of the first True, and 0
\* when no comparison is True (NaN == NaN is False)
argmax_eq(PRES, start_index, end_index, pmax) ==
  LET hits == {i \in start_index..end_index : pmax # NaN /\ PRES[i] = pmax}
  IN  IF hits = {} THEN 0 ELSE SetMin(hits) - start_index

\* mutant: a range without a valid pressure has its maximum at its end
pmax_index_of_end(PRES, start_index, end_index) ==
  IF nanmax(PRES, start_index, end_index) = NaN THEN end_index
  ELSE start_index + argmax_eq(PRES, start_index, end_index,
                               nanmax(PRES, start_index, end_index))

\* pmax_index: start_index + np.argmax(PRES[start:end+1] == pmax)
pmax_index_of(PRES, start_index, end_index) ==
  start_index + argmax_eq(PRES, start_index, end_index,
                          nanmax(PRES, start_index, end_index))

\* mutant: the maximum-pressure point is given to the ascent
cast_slices_exclusive(cast, start_index, pmax_index, end_index, dive) ==
  setslice(setslice(cast, start_index, pmax_index - 1, 2 * dive),
           pmax_index, end_index, 2 * dive + 1)

\* the two slice assignments to dive_num_cast (in halves: dive -> 2*dive,
\* dive + 0.5 -> 2*dive + 1)
cast_slices(cast, start_index, pmax_index, end_index, dive) ==
  setslice(setslice(cast, start_index, pmax_index, 2 * dive),
           pmax_index + 1, end_index, 2 * dive + 1)

\* 2 * dive_num_cast - 1 over the whole column (in halves: 2*c - 2);
\* arithmetic on NaN gives NaN
profile_number(cast) == [i \in DOMAIN cast |-> IF cast[i] = NaN THEN NaN ELSE 2 * cast[i] - 2]

\* mutant: PROFILE_NUMBER is computed once, in the first iteration, and kept
profile_step_keep(ds, divenum_str, dive) ==
  LET r == dive_range(ds[divenum_str], dive)
      pmax_index == pmax_index_of(ds["PRES"], r[1], r[2])
      ds1 == assign(ds, "dive_num_cast",
                    cast_slices(ds["dive_num_cast"], r[1], pmax_index, r[2], dive))
  IN  IF "PROFILE_NUMBER" \in DOMAIN ds1 THEN ds1
      ELSE assign(ds1, "PROFILE_NUMBER", profile_number(ds1["dive_num_cast"]))

\* one iteration of the loop of assign_profile_number
profile_step(ds, divenum_str, dive) ==
  LET r == dive_range(ds[divenum_str], dive)
      start_index == r[1]
      end_index == r[2]
      pmax_index == pmax_index_of(ds["PRES"], start_index, end_index)
      ds1 == assign(ds, "dive_num_cast",
                    cast_slices(ds["dive_num_cast"], start_index, pmax_index, end_index, dive))
      ds2 == drop_vars(ds1, "PROFILE_NUMBER")
  IN  assign(ds2, "PROFILE_NUMBER", profile_number(ds2["dive_num_cast"]))

RECURSIVE profile_loop(_, _, _)
profile_loop(ds, divenum_str, dives) ==
  IF dives = <<>> THEN ds
  ELSE profile_loop(profile_step(ds, divenum_str, Head(dives)), divenum_str, Tail(dives))

assign_profile_number(ds, divenum_str) ==
  LET ds0 == assign(drop_vars(ds, "dive_num_cast"), "dive_num_cast", full(dims(ds), NaN))
  IN  profile_loop(ds0, divenum_str, unique({ds[divenum_str][i] : i \in DOMAIN ds[divenum_str]}))

\* mutant: dive_num is not known as a dive identifier
divenum_key_two_names(ds) ==
  IF "dive_number" \in DOMAIN ds THEN "dive_number"
  ELSE IF "divenum" \in DOMAIN ds THEN "divenum"
  ELSE ""

\* the name of the dive identifier field, "" when there is none
divenum_key(ds) ==
  IF "dive_number" \in DOMAIN ds THEN "dive_number"
  ELSE IF "divenum" \in DOMAIN ds THEN "divenum"
  ELSE IF "dive_num" \in DOMAIN ds THEN "dive_num"
  ELSE ""

\* mutant: the two phase codes are exchanged
phase_slices_swapped(PHASE, start_index, pmax_index, end_index) ==
  setslice(setslice(PHASE, start_index, pmax_index, 1), pmax_index + 1, end_index, 2)

\* the two slice assignments of phase 2 (descent) and phase 1 (ascent)
phase_slices(PHASE, start_index, pmax_index, end_index) ==
  setslice(setslice(PHASE, start_index, pmax_index, 2), pmax_index + 1, end_index, 1)

\* mutant: the interval runs from the first to the last valid index
surface_interval_to_last(TIME_GPS, start_index, end_index) ==
  LET valid_time_gps_indices == {i \in start_index..end_index : TIME_GPS[i] # NaN}
  IN  IF Cardinality(valid_time_gps_indices) >= 2
      THEN <<SetMin(valid_time_gps_indices), SetMax(valid_time_gps_indices)>>
      ELSE <<>>

\* the first and the second index of the range with a valid TIME_GPS, as a
\* sequence: <<first, second>>, or <<>> when there are fewer than two
surface_interval(TIME_GPS, start_index, end_index) ==
  LET valid_time_gps_indices == {i \in start_index..end_index : TIME_GPS[i] # NaN}
  IN  IF Cardinality(valid_time_gps_indices) >= 2
      THEN LET first_valid_index == SetMin(valid_time_gps_indices)
           IN  <<first_valid_index, SetMin(valid_time_gps_indices \ {first_valid_index})>>
      ELSE <<>>

\* mutant: the descent and ascent labels are assigned after the surface interval
phase_step_surface_first(ds, divenum_str, dive) ==
  LET r == dive_range(ds[divenum_str], dive)
      start_index == r[1]
      end_index == r[2]
      pmax_index == pmax_index_of(ds["PRES"], start_index, end_index)
      s == surface_interval(ds["TIME_GPS"], start_index, end_index)
      PHASE == IF s = <<>> THEN ds["PHASE"] ELSE setslice(ds["PHASE"], s[1], s[2], 3)
  IN  assign(ds, "PHASE", phase_slices(PHASE, start_index, pmax_index, end_index))

\* one iteration of the loop of assign_phase
phase_step(ds, divenum_str, dive) ==
  LET r == dive_range(ds[divenum_str], dive)
      start_index == r[1]
      end_index == r[2]
      pmax_index == pmax_index_of(ds["PRES"], start_index, end_index)
      PHASE == phase_slices(ds["PHASE"], start_index, pmax_index, end_index)
      s == surface_interval(ds["TIME_GPS"], start_index, end_index)
  IN  assign(ds, "PHASE", IF s = <<>> THEN PHASE ELSE setslice(PHASE, s[1], s[2], 3))

RECURSIVE phase_loop(_, _, _)
phase_loop(ds, divenum_str, dives) ==
  IF dives = <<>> THEN ds
  ELSE phase_loop(phase_step(ds, divenum_str, Head(dives)), divenum_str, Tail(dives))

assign_phase(ds) ==
  LET divenum_str == divenum_key(ds)
      ds0 == assign(assign(ds, "PHASE", full(dims(ds), NaN)), "PHASE_QC", full(dims(ds), 0))
  IN  phase_loop(ds0, divenum_str, unique({ds[divenum_str][i] : i \in DOMAIN ds[divenum_str]}))

\* the dataset that assign_phase leaves behind when ds['TIME_GPS'] raises in
\* the first iteration: PHASE and PHASE_QC are there, the first dive has its
\* descent and ascent labels
assign_phase_until_time_gps(ds) ==
  LET divenum_str == divenum_key(ds)
      ds0 == assign(assign(ds, "PHASE", full(dims(ds), NaN)), "PHASE_QC", full(dims(ds), 0))
      dive == Head(unique({ds[divenum_str][i] : i \in DOMAIN ds[divenum_str]}))
      r == dive_range(ds[divenum_str], dive)
  IN  assign(ds0, "PHASE",
             phase_slices(ds0["PHASE"], r[1], pmax_index_of(ds["PRES"], r[1], r[2]), r[2]))

\* ---------------------------------------------------------------- strings
\* str.startswith
startswith(s, prefix) == Len(s) >= Len(prefix) /\ SubSeq(s, 1, Len(prefix)) = prefix

\* str.replace(old, new): every occurrence of old, scanned from the left
RECURSIVE replace(_, _, _)
replace(s, old, new) ==
  LET found == {i \in 1..(Len(s) - Len(old) + 1) : SubSeq(s, i, i + Len(old) - 1) = old}
  IN  IF found = {} THEN s
      ELSE LET first == CHOOSE i \in found : \A j \in found : i <= j
           IN  SubSeq(s, 1, first - 1) \o new
                 \o replace(SubSeq(s, first + Len(old), Len(s)), old, new)

\* the lower-case letters and their upper-case forms
UpperCase ==
  [c \in {"a", "b", "c", "d", "e", "f", "g", "h", "i", "j", "k", "l", "m", "n", "o", "p",
          "q", "r", "s", "t", "u", "v", "w", "x", "y", "z"} |->
     CASE c = "a" -> "A" [] c = "b" -> "B" [] c = "c" -> "C" [] c = "d" -> "D"
       [] c = "e" -> "E" [] c = "f" -> "F" [] c = "g" -> "G" [] c = "h" -> "H"
       [] c = "i" -> "I" [] c = "j" -> "J" [] c = "k" -> "K" [] c = "l" -> "L"
       [] c = "m" -> "M" [] c = "n" -> "N" [] c = "o" -> "O" [] c = "p" -> "P"
       [] c = "q" -> "Q" [] c = "r" -> "R" [] c = "s" -> "S" [] c = "t" -> "T"
       [] c = "u" -> "U" [] c = "v" -> "V" [] c = "w" -> "W" [] c = "x" -> "X"
       [] c = "y" -> "Y" [] c = "z" -> "Z"]

\* str.upper
RECURSIVE upper(_)
upper(s) ==
  IF Len(s) = 0 THEN s
  ELSE LET c == SubSeq(s, 1, 1)
       IN  (IF c \in DOMAIN UpperCase THEN UpperCase[c] ELSE c) \o upper(SubSeq(s, 2, Len(s)))

\* ------------------------------------------------------ grouping splitter
\* A variable of the input record is [name, dims, coord, attrs, values]:
\* dims is the tuple of its dimension names, coord tells a coordinate from a
\* data variable.  A dataset of such variables is the sequence of them.
Range(seq) == {seq[i] : i \in DOMAIN seq}

\* ds[var_name]: the variable together with the coordinates of ds whose
\* dimensions are all dimensions of the variable
construct_dataarray(ds, k) ==
  SelectSeq(ds, LAMBDA c : c.coord /\ Range(c.dims) \subseteq Range(ds[k].dims)) \o <<ds[k]>>

\* dataset[var_name] = var_data: the variable and its coordinates are added
dataset_update(dataset, dataarray) ==
  dataset \o SelectSeq(dataarray, LAMBDA v : \A i \in DOMAIN dataset : dataset[i].name # v.name)

\* the loop over ds.data_vars, from the k-th variable of ds on
RECURSIVE split_loop(_, _, _)
split_loop(ds, k, unique_dims_datasets) ==
  IF k > Len(ds) THEN unique_dims_datasets
  ELSE IF ds[k].coord THEN split_loop(ds, k + 1, unique_dims_datasets)
  ELSE LET var_dims == ds[k].dims
           dataset == IF var_dims \in DOMAIN unique_dims_datasets
                      THEN unique_dims_datasets[var_dims] ELSE <<>>
       IN  split_loop(ds, k + 1,
                      assign(unique_dims_datasets, var_dims,
                             dataset_update(dataset, construct_dataarray(ds, k))))

\* a mapping from the tuple of dimension names to the dataset of the group
split_by_unique_dims(ds) == split_loop(ds, 1, [d \in {} |-> <<>>])

\* xr.Dataset(dict) of a dict built by a comprehension over the variables:
\* keys[i] is the key of variables[i], a key met again overwrites the entry
RECURSIVE dataset_of(_, _, _)
dataset_of(keys, variables, acc) ==
  IF variables = <<>> THEN acc
  ELSE dataset_of(Tail(keys), Tail(variables), assign(acc, Head(keys), Head(variables).values))

extract_variables(ds) ==
  LET sg_cal_vars == SelectSeq(ds, LAMBDA v : startswith(v.name, "sg_cal"))
      not_sg_cal == SelectSeq(ds, LAMBDA v : ~startswith(v.name, "sg_cal"))
      dc_log_vars == SelectSeq(not_sg_cal, LAMBDA v : startswith(v.name, "log_"))
      divecycle_other == SelectSeq(not_sg_cal, LAMBDA v : ~startswith(v.name, "log_"))
      names(variables) == [i \in DOMAIN variables |-> variables[i].name]
      stripped(variables) == [i \in DOMAIN variables |-> replace(variables[i].name, "sg_cal_", "")]
  IN  [sg_cal |-> dataset_of(stripped(sg_cal_vars), sg_cal_vars, [n \in {} |-> <<>>]),
       dc_log |-> dataset_of(names(dc_log_vars), dc_log_vars, [n \in {} |-> <<>>]),
       dc_other |-> dataset_of(names(divecycle_other), divecycle_other, [n \in {} |-> <<>>])]

\* ------------------------------------------------- unit & name normalizer
\* The normalizer works on the group of the measurement axis as three maps
\* over the field names: values (the columns), dims and attrs.
dims_rename_dict == [sg_data_point |-> "N_MEASUREMENTS"]

\* the name-rename table, in the order of its entries: <<old name, new name>>
standard_names ==
  <<<<"ctd_time", "TIME">>, <<"latitude", "LATITUDE">>, <<"longitude", "LONGITUDE">>,
    <<"ctd_depth", "DEPTH">>, <<"ctd_pressure", "PRES">>, <<"temperature", "TEMP">>,
    <<"vert_speed", "GLIDER_VERT_VELO_MODEL">>>>

\* the attribute vocabulary: field -> attribute -> expected value
vocab_attrs ==
  [PRES |-> [units |-> "dbar", long_name |-> "Pressure"],
   TEMP |-> [units |-> "Celsius", long_name |-> "Temperature"],
   GLIDER_VERT_VELO_MODEL |-> [units |-> "m s-1", long_name |-> "Vertical glider speed"]]

\* mutant: a unit and the unit it is converted from are both preferred
preferred_units_both_ways == {"m s-1", "cm s-1", "dbar", "S m-1"}

preferred_units == {"m s-1", "dbar", "S m-1"}

unit_str_format ==
  [u \in {"m/s", "cm/s", "S/m", "mS/cm", "meters", "degrees_Celsius",
          "degreesCelsius", "g/m^3", "kg/m^3"} |->
     CASE u = "m/s" -> "m s-1"
       [] u = "cm/s" -> "cm s-1"
       [] u = "S/m" -> "S m-1"
       [] u = "mS/cm" -> "mS cm-1"
       [] u = "meters" -> "m"
       [] u = "degrees_Celsius" -> "Celsius"
       [] u = "degreesCelsius" -> "Celsius"
       [] u = "g/m^3" -> "g m-3"
       [] u = "kg/m^3" -> "kg m-3"]

\* a multiplicative factor as the fraction num/den (0.01 is 1/100)
Factor(num, den) == [num |-> num, den |-> den]

\* the declared conversion pairs, in the order of the table
unit1_to_unit2 ==
  <<[current_unit |-> "cm s-1", new_unit |-> "m s-1", factor |-> Factor(1, 100)],
    [current_unit |-> "cm/s", new_unit |-> "m/s", factor |-> Factor(1, 100)],
    [current_unit |-> "m/s", new_unit |-> "cm/s", factor |-> Factor(100, 1)],
    [current_unit |-> "m s-1", new_unit |-> "cm s-1", factor |-> Factor(100, 1)],
    [current_unit |-> "S/m", new_unit |-> "mS/cm", factor |-> Factor(1, 10)],
    [current_unit |-> "S m-1", new_unit |-> "mS cm-1", factor |-> Factor(1, 10)],
    [current_unit |-> "mS/cm", new_unit |-> "S/m", factor |-> Factor(10, 1)],
    [current_unit |-> "mS cm-1", new_unit |-> "S m-1", factor |-> Factor(10, 1)],
    [current_unit |-> "dbar", new_unit |-> "Pa", factor |-> Factor(10000, 1)],
    [current_unit |-> "Pa", new_unit |-> "dbar", factor |-> Factor(1, 10000)],
    [current_unit |-> "dbar", new_unit |-> "kPa", factor |-> Factor(10, 1)],
    [current_unit |-> "degreesCelsius", new_unit |-> "Celsius", factor |-> Factor(1, 1)],
    [current_unit |-> "Celsius", new_unit |-> "degreesCelsius", factor |-> Factor(1, 1)],
    [current_unit |-> "m", new_unit |-> "cm", factor |-> Factor(100, 1)],
    [current_unit |-> "m", new_unit |-> "km", factor |-> Factor(1, 1000)],
    [current_unit |-> "cm", new_unit |-> "m", factor |-> Factor(1, 100)],
    [current_unit |-> "km", new_unit |-> "m", factor |-> Factor(1000, 1)],
    [current_unit |-> "g/m3", new_unit |-> "kg/m3", factor |-> Factor(1, 1000)],
    [current_unit |-> "g m-3", new_unit |-> "kg m-3", factor |-> Factor(1, 1000)],
    [current_unit |-> "kg/m3", new_unit |-> "g/m3", factor |-> Factor(1000, 1)],
    [current_unit |-> "kg m-3", new_unit |-> "g m-3", factor |-> Factor(1000, 1)]>>

\* the tables indexed by the declared unit that convert_units can be given:
\* every unit with a declared pair is a key, and its entry is one of the
\* pairs declared for it
UnitConversionTables ==
  LET units == {unit1_to_unit2[i].current_unit : i \in DOMAIN unit1_to_unit2}
      pairs(u) == {j \in DOMAIN unit1_to_unit2 : unit1_to_unit2[j].current_unit = u}
      several == {u \in units : Cardinality(pairs(u)) > 1}
      picks == {pick \in [several -> DOMAIN unit1_to_unit2] : \A u \in several : pick[u] \in pairs(u)}
      entry(j) == [units_name |-> unit1_to_unit2[j].new_unit, factor |-> unit1_to_unit2[j].factor]
  IN  {[u \in units |-> entry(IF u \in several THEN pick[u] ELSE CHOOSE j \in pairs(u) : TRUE)] :
         pick \in picks}

\* value * factor; arithmetic on NaN gives NaN
times(value, factor) == IF value = NaN THEN NaN ELSE (value * factor.num) \div factor.den

\* ds.rename({old: new}) and ds.rename_dims on one of the three maps
rename_key(map, old, new) ==
  [f \in (DOMAIN map \ {old}) \cup {new} |-> IF f = new THEN map[old] ELSE map[f]]

rename(ds, old, new) ==
  [values |-> rename_key(ds.values, old, new),
   dims |-> rename_key(ds.dims, old, new),
   attrs |-> rename_key(ds.attrs, old, new)]

\* the dataset with renamed dimensions, and whether the warning was logged
rename_dimensions(ds, rename_dict) ==
  LET matching_vars == {var \in DOMAIN ds.dims :
                          \E dim \in DOMAIN rename_dict : dim \in Range(ds.dims[var])}
      renamed(dim) == IF dim \in DOMAIN rename_dict THEN rename_dict[dim] ELSE dim
  IN  [ds |-> [ds EXCEPT !.dims = [var \in DOMAIN ds.dims |->
                                     [i \in DOMAIN ds.dims[var] |-> renamed(ds.dims[var][i])]]],
       logged |-> IF matching_vars = {}
                  THEN {"No variables with dimensions matching any key in rename_dict found."}
                  ELSE {}]

suffixes == <<"", "_qc", "_raw", "_raw_qc">>

\* mutant: the rename is done although the target exists
rename_variant_overwrite(state, old_name, new_name, suffix) ==
  LET ds == state.ds
      variant == old_name \o suffix
      new_name1 == new_name \o upper(suffix)
  IN  IF variant \in DOMAIN ds.values
      THEN [state EXCEPT !.ds = rename(ds, variant, new_name1)]
      ELSE state

\* one pass of the inner loop of rename_variables: state is the dataset and
\* the lines printed so far
rename_variant(state, old_name, new_name, suffix) ==
  LET ds == state.ds
      variant == old_name \o suffix
      new_name1 == new_name \o upper(suffix)
  IN  IF new_name1 \in DOMAIN ds.values
      THEN [state EXCEPT !.printed = @ \cup
              {"Warning: Variable '" \o new_name1 \o "' already exists in the dataset."}]
      ELSE IF variant \in DOMAIN ds.values
           THEN [state EXCEPT !.ds = rename(ds, variant, new_name1)]
           ELSE state

\* the inner loop of rename_variables over the variants of one entry; loop
\* holds the variables of the loop: the state (the dataset and the lines
\* printed) and the index j of the suffix
RECURSIVE rename_variants(_, _, _)
rename_variants(loop, old_name, new_name) ==
  IF loop.j > Len(suffixes) THEN loop.state
  ELSE rename_variants([loop EXCEPT
                          !.state = rename_variant(@, old_name, new_name, suffixes[loop.j]),
                          !.j = @ + 1],
                       old_name, new_name)

\* the outer loop of rename_variables over the entries of rename_dict; loop
\* holds the state and the index k of the entry
RECURSIVE rename_loop(_, _)
rename_loop(loop, rename_dict) ==
  IF loop.k > Len(rename_dict) THEN loop.state
  ELSE rename_loop([loop EXCEPT
                      !.state = rename_variants([state |-> @, j |-> 1],
                                                rename_dict[loop.k][1], rename_dict[loop.k][2]),
                      !.k = @ + 1],
                   rename_dict)

\* the renamed dataset and the lines printed
rename_variables(ds, rename_dict) ==
  rename_loop([state |-> [ds |-> ds, printed |-> {}], k |-> 1], rename_dict)

mismatch_msg(var, attr, old_value, new_value) ==
  "Warning: Variable '" \o var \o "' attribute '" \o attr \o "' mismatch: Old value: "
    \o old_value \o ", New value: " \o new_value

\* mutant: the expected value is written over a conflicting one
assign_attribute_overwrite(state, var, attr, new_value, unit_format) ==
  [state EXCEPT !.attrs = assign(@, var, assign(@[var], attr, new_value))]

\* one pass of the inner loop of assign_variable_attributes: state is the
\* attrs map and the warnings so far
assign_attribute(state, var, attr, new_value, unit_format) ==
  IF attr \in DOMAIN state.attrs[var]
  THEN LET found == state.attrs[var][attr]
           old_value == IF found \in DOMAIN unit_format THEN unit_format[found] ELSE found
           attrs1 == assign(state.attrs, var, assign(state.attrs[var], attr, old_value))
       IN  [attrs |-> attrs1,
            attr_warnings |-> IF old_value # new_value
                              THEN state.attr_warnings \cup {mismatch_msg(var, attr, old_value, new_value)}
                              ELSE state.attr_warnings]
  ELSE [state EXCEPT !.attrs = assign(@, var, assign(@[var], attr, new_value))]

RECURSIVE assign_attributes_loop(_, _, _, _)
assign_attributes_loop(state, todo, vocab, unit_format) ==
  IF todo = {} THEN state
  ELSE LET pair == CHOOSE p \in todo : TRUE
       IN  assign_attributes_loop(
             assign_attribute(state, pair[1], pair[2], vocab[pair[1]][pair[2]], unit_format),
             todo \ {pair}, vocab, unit_format)

\* mutant: the mismatches are not collected
assign_variable_attributes_silent(ds, vocab, unit_format) ==
  LET todo == UNION {{<<var, attr>> : attr \in DOMAIN vocab[var]} :
                       var \in DOMAIN ds.values \cap DOMAIN vocab}
      final == assign_attributes_loop([attrs |-> ds.attrs, attr_warnings |-> {}],
                                      todo, vocab, unit_format)
  IN  [ds |-> [ds EXCEPT !.attrs = final.attrs], attr_warnings |-> {}]

\* the dataset with the attributes assigned, and the warnings (every message
\* is also printed)
assign_variable_attributes(ds, vocab, unit_format) ==
  LET todo == UNION {{<<var, attr>> : attr \in DOMAIN vocab[var]} :
                       var \in DOMAIN ds.values \cap DOMAIN vocab}
      final == assign_attributes_loop([attrs |-> ds.attrs, attr_warnings |-> {}],
                                      todo, vocab, unit_format)
  IN  [ds |-> [ds EXCEPT !.attrs = final.attrs], attr_warnings |-> final.attr_warnings]

\* mutant: the rescaling does not look at the preferred units
convert_field_any_target(ds, var, preferred, unit_conv, keep_attrs) ==
  LET current_unit == IF "units" \in DOMAIN ds.attrs[var] THEN ds.attrs[var].units ELSE ""
  IN  IF current_unit \in DOMAIN unit_conv
      THEN [ds EXCEPT
              !.values[var] = [i \in DOMAIN @ |-> times(@[i], unit_conv[current_unit].factor)],
              !.attrs[var] = assign(IF keep_attrs THEN @ ELSE [a \in {} |-> ""],
                                    "units", unit_conv[current_unit].units_name)]
      ELSE ds

\* one pass of the loop of convert_units; keep_attrs tells whether the
\* product ds[var] * factor keeps the attributes of ds[var]
convert_field(ds, var, preferred, unit_conv, keep_attrs) ==
  LET current_unit == IF "units" \in DOMAIN ds.attrs[var] THEN ds.attrs[var].units ELSE ""
  IN  IF current_unit \in DOMAIN unit_conv /\ unit_conv[current_unit].units_name \in preferred
      THEN [ds EXCEPT
              !.values[var] = [i \in DOMAIN @ |-> times(@[i], unit_conv[current_unit].factor)],
              !.attrs[var] = assign(IF keep_attrs THEN @ ELSE [a \in {} |-> ""],
                                    "units", unit_conv[current_unit].units_name)]
      ELSE ds

RECURSIVE convert_loop(_, _, _, _, _)
convert_loop(ds, todo, preferred, unit_conv, keep_attrs) ==
  IF todo = {} THEN ds
  ELSE LET var == CHOOSE v \in todo : TRUE
       IN  convert_loop(convert_field(ds, var, preferred, unit_conv, keep_attrs),
                        todo \ {var}, preferred, unit_conv, keep_attrs)

convert_units(ds, preferred, unit_conv, keep_attrs) ==
  convert_loop(ds, DOMAIN ds.values, preferred, unit_conv, keep_attrs)

\* -------------------------------------------------------- depth derivation
\* gsw.z_from_p: the height of a pressure at a latitude, negative below the
\* surface; missing when an argument is missing
z_from_p(p, lat) == IF p = NaN \/ lat = NaN THEN NaN ELSE 0 - (100 * p + lat)

\* the attributes given to DEPTH_Z
DEPTH_Z_attrs ==
  [units |-> "meters", positive |-> "up", standard_name |-> "depth",
   comment |-> "Depth calculated from pressure using gsw library, positive up."]

\* mutant: the depth is computed at the longitude
calc_Z_from_longitude(ds) ==
  assign(ds, "DEPTH_Z", [i \in 1..dims(ds) |-> z_from_p(ds["PRES"][i], ds["LONGITUDE"][i])])

\* the stream with DEPTH_Z attached (PRES, LATITUDE and LONGITUDE present)
calc_Z(ds) ==
  assign(ds, "DEPTH_Z", [i \in 1..dims(ds) |-> z_from_p(ds["PRES"][i], ds["LATITUDE"][i])])

\* --------------------------------------------------- metadata reconciler
\* a dict in insertion order is a sequence of <<key, value>> pairs
dict_keys(d) == [i \in DOMAIN d |-> d[i][1]]

\* key in d
dict_has(d, key) == \E i \in DOMAIN d : d[i][1] = key

\* d[key]
dict_get(d, key) == d[CHOOSE i \in DOMAIN d : d[i][1] = key][2]

\* d.get(key, default)
dict_get_default(d, key, default) == IF dict_has(d, key) THEN dict_get(d, key) ELSE default

\* d[key] = value: a key already there keeps its place
dict_set(d, key, value) ==
  IF dict_has(d, key)
  THEN [i \in DOMAIN d |-> IF d[i][1] = key THEN <<key, value>> ELSE d[i]]
  ELSE Append(d, <<key, value>>)

\* {**d, **e}
RECURSIVE dict_merge(_, _)
dict_merge(d, e) ==
  IF e = <<>> THEN d
  ELSE LET updated == dict_set(d, Head(e)[1], Head(e)[2])
       IN  IF Len(updated) > 0 THEN dict_merge(updated, Tail(e)) ELSE updated

\* d.pop(key)
dict_pop(d, key) == SelectSeq(d, LAMBDA kv : kv[1] # key)

\* Python's None
None == << <<"None">> >>

\* the failures of the reconciler
UnboundLocalError == << <<"UnboundLocalError">> >>
KeyError == << <<"KeyError">> >>

contrib_to_append ==
  << <<"contributor_name", "Eleanor Frajka-Williams">>,
     <<"contributor_email", "eleanorfrajka@gmail.com">>,
     <<"contributor_role", "Data scientist">>,
     <<"contributor_role_vocabulary", "http://vocab.nerc.ac.uk/search_nvs/W08">>,
     <<"contributing_institutions", "University of Hamburg - Institute of Oceanography">>,
     <<"contributing_institutions_vocabulary", "https://edmo.seadatanet.org/report/1156">>,
     <<"contributing_institutions_role", "Data scientist">>,
     <<"contributing_institutions_role_vocabulary", "http://vocab.nerc.ac.uk/search_nvs/W08">> >>

attr_to_add ==
  << <<"title", "OceanGliders trajectory file">>,
     <<"platform", "sub-surface gliders">>,
     <<"platform_vocabulary", "https://vocab.nerc.ac.uk/collection/L06/current/27">>,
     <<"featureType", "trajectoryProfile">>,
     <<"Conventions", "CF-1.10,OG-1.0">>,
     <<"rtqc_method", "No QC applied">>,
     <<"rtqc_method_doi", "n/a">>,
     <<"doi", "">>,
     <<"data_url", "">> >>

attr_as_is ==
  <<"naming_authority", "institution", "project", "geospatial_lat_min",
    "geospatial_lat_max", "geospatial_lon_min", "geospatial_lon_max",
    "geospatial_vertical_min", "geospatial_vertical_max", "license", "keywords",
    "keywords_vocabulary", "file_version", "acknowledgment", "date_created",
    "disclaimer">>

\* new name, old name
attr_to_rename ==
  << <<"site", "summary">>, <<"uri", "uuid">>, <<"uri_comment", "UUID">>,
     <<"comment", "history">> >>

order_of_attr ==
  <<"title", "platform", "platform_vocabulary", "id", "naming_authority",
    "institution", "internal_mission_identifier", "geospatial_lat_min",
    "geospatial_lat_max", "geospatial_lon_min", "geospatial_lon_max",
    "geospatial_vertical_min", "geospatial_vertical_max", "time_coverage_start",
    "time_coverage_end", "site", "site_vocabulary", "program",
    "program_vocabulary", "project", "network", "contributor_name",
    "contributor_email", "contributor_id", "contributor_role_vocabular", "contributing_institutions",
    "contributing_institutions_vocabulary", "contributing_institutions_role",
    "contributing_institutions_role_vocabulary", "uri", "data_url", "doi",
    "rtqc_method", "rtqc_method_doi", "web_link", "comment", "start_date",
    "date_created", "featureType", "Conventions">>

\* sub in s
contains(s, sub) ==
  \E i \in 1..(Len(s) - Len(sub) + 1) : SubSeq(s, i, i + Len(sub) - 1) = sub

\* sep.join(lst)
RECURSIVE join(_, _)
join(sep, lst) ==
  IF lst = <<>> THEN ""
  ELSE IF Len(lst) = 1 THEN lst[1]
  ELSE lst[1] \o sep \o join(sep, Tail(lst))

\* str.rstrip(char)
RECURSIVE rstrip(_, _)
rstrip(s, char) ==
  IF Len(s) > 0 /\ SubSeq(s, Len(s), Len(s)) = char
  THEN rstrip(SubSeq(s, 1, Len(s) - 1), char)
  ELSE s

\* the metadata of a dataset: its string attributes and its number attributes
attrs_has(ds, attr) == dict_has(ds.text, attr) \/ dict_has(ds.number, attr)

\* get_contributors.create_or_append_list
create_or_append_list(existing_list, new_item) ==
  IF new_item \notin Range(existing_list)
  THEN Append(existing_list, replace(new_item, ",", "-"))
  ELSE existing_list

\* get_contributors.list_to_comma_separated_string
list_to_comma_separated_string(lst) == join(", ", lst)

\* names is bound in a branch of creator_name or of contributor_name
names_bound(new_attributes) ==
  dict_has(new_attributes, "creator_name") \/ dict_has(new_attributes, "contributor_name")

\* insts is bound in a branch of contributing_institutions or of institution
insts_bound(new_attributes) ==
  dict_has(new_attributes, "contributing_institutions") \/ dict_has(new_attributes, "institution")

\* the list parsed from the creator and the contributor attribute of one kind
parsed_list(new_attributes, kind, default) ==
  IF dict_has(new_attributes, "creator_name")
  THEN LET first == create_or_append_list(<<>>,
                      dict_get_default(new_attributes, "creator_" \o kind, default))
       IN  IF dict_has(new_attributes, "contributor_name")
           THEN create_or_append_list(first,
                  dict_get_default(new_attributes, "contributor_" \o kind, default))
           ELSE first
  ELSE IF dict_has(new_attributes, "contributor_name")
       THEN create_or_append_list(<<>>,
              dict_get_default(new_attributes, "contributor_" \o kind, default))
       ELSE <<>>

\* the institution lists: of contributing_institutions, else of institution
parsed_institutions(new_attributes) ==
  LET inst_vocab == create_or_append_list(<<>>,
                      dict_get_default(new_attributes, "contributing_institutions_vocabulary",
                                       "https://edmo.seadatanet.org/report/1434"))
      inst_roles_vocab == create_or_append_list(<<>>,
                      dict_get_default(new_attributes, "contributing_institutions_role_vocabulary",
                                       "http://vocab.nerc.ac.uk/collection/W08/current/"))
  IN  IF dict_has(new_attributes, "contributing_institutions")
      THEN [insts |-> create_or_append_list(<<>>,
                        dict_get_default(new_attributes, "contributing_institutions", "")),
            inst_roles |-> create_or_append_list(<<>>,
                        dict_get_default(new_attributes, "contributing_institutions_role", "Operator")),
            inst_vocab |-> inst_vocab,
            inst_roles_vocab |-> inst_roles_vocab]
      ELSE IF dict_has(new_attributes, "institution")
      THEN [insts |-> create_or_append_list(<<>>, dict_get(new_attributes, "institution")),
            inst_roles |-> create_or_append_list(<<>>,
                        dict_get_default(new_attributes, "contributing_institutions_role", "PI")),
            inst_vocab |-> inst_vocab,
            inst_roles_vocab |-> inst_roles_vocab]
      ELSE [insts |-> <<>>, inst_roles |-> <<>>, inst_vocab |-> <<>>, inst_roles_vocab |-> <<>>]

\* the institution of the University of Washington gets its long name
rename_institution(inst) ==
  IF contains(inst, "Oceanography") /\ contains(inst, "University") /\ contains(inst, "Washington")
  THEN "University of Washington - School of Oceanography"
  ELSE inst

\* lst += [''] * (max_length - len(lst))
pad(lst, max_length) == lst \o [i \in 1..(max_length - Len(lst)) |-> ""]

\* the value of to_append under key, appended to its list
append_value(lst, to_append, key) ==
  IF to_append # None /\ dict_has(to_append, key)
  THEN create_or_append_list(lst, dict_get(to_append, key))
  ELSE lst

\* the keys of the dict that get_contributors returns
contributor_keys ==
  <<"contributor_name", "contributor_email", "contributor_role",
    "contributor_role_vocabulary", "contributing_institutions",
    "contributing_institutions_role", "contributing_institutions_vocabulary",
    "contributing_institutions_role_vocabulary">>

\* the eight lists of get_contributors before they are joined: parsed,
\* padded to the length of names, appended to
contributor_lists(ds, to_append) ==
  LET new_attributes == ds.text
      institutions == parsed_institutions(new_attributes)
      lists == [contributor_name |-> parsed_list(new_attributes, "name", ""),
                contributor_email |-> parsed_list(new_attributes, "email", ""),
                contributor_role |-> parsed_list(new_attributes, "role", "PI"),
                contributor_role_vocabulary |->
                  parsed_list(new_attributes, "role_vocabulary", "http://vocab.nerc.ac.uk/search_nvs/W08"),
                contributing_institutions |->
                  [i \in DOMAIN institutions.insts |-> rename_institution(institutions.insts[i])],
                contributing_institutions_role |-> institutions.inst_roles,
                contributing_institutions_vocabulary |-> institutions.inst_vocab,
                contributing_institutions_role_vocabulary |-> institutions.inst_roles_vocab]
      max_length == Len(lists.contributor_name)
  IN  [key \in Range(contributor_keys) |->
         append_value(pad(lists[key], max_length), to_append, key)]

\* get_contributors
get_contributors(ds, to_append) ==
  IF ~names_bound(ds.text) \/ ~insts_bound(ds.text)
  THEN UnboundLocalError
  ELSE LET lists == contributor_lists(ds, to_append)
       IN  [i \in DOMAIN contributor_keys |->
              <<contributor_keys[i], list_to_comma_separated_string(lists[contributor_keys[i]])>>]

\* '%02d'
two_digits(n) ==
  LET digit == <<"0", "1", "2", "3", "4", "5", "6", "7", "8", "9">>
  IN  digit[((n \div 10) % 10) + 1] \o digit[(n % 10) + 1]

\* strftime('%Y%m%dT%H%M%S') of the time t seconds after the start of 1970,
\* within January 1970
strftime(t) ==
  "197001" \o two_digits(t \div 86400 + 1) \o "T" \o two_digits((t % 86400) \div 3600)
    \o two_digits((t % 3600) \div 60) \o two_digits(t % 60)

\* get_time_attributes.clean_time_string
clean_time_string(time_str) ==
  replace(rstrip(replace(replace(time_str, "_", ""), ":", ""), "Z"), "-", "")

\* the value of a time attribute: a number formatted, a string with a '-'
\* or a ':' cleaned
time_value(ds, attr) ==
  IF dict_has(ds.number, attr)
  THEN strftime(dict_get(ds.number, attr))
  ELSE LET val1 == dict_get(ds.text, attr)
       IN  IF contains(val1, "-") \/ contains(val1, ":") THEN clean_time_string(val1) ELSE val1

\* get_time_attributes, called at the time clock
get_time_attributes(ds, clock) ==
  LET time_attr_list == <<"time_coverage_start", "time_coverage_end", "date_created", "start_time">>
      present == SelectSeq(time_attr_list, LAMBDA attr : attrs_has(ds, attr))
      time_attrs == Append([i \in DOMAIN present |-> <<present[i], time_value(ds, present[i])>>],
                           <<"date_modified", strftime(clock)>>)
      with_start == IF dict_has(time_attrs, "start_time")
                    THEN dict_set(dict_pop(time_attrs, "start_time"), "start_date",
                                  dict_get(time_attrs, "start_time"))
                    ELSE time_attrs
  IN  IF dict_has(with_start, "start_date") THEN with_start
      ELSE IF dict_has(with_start, "time_coverage_start")
           THEN dict_set(with_start, "start_date", dict_get(with_start, "time_coverage_start"))
           ELSE KeyError

\* extract_attr_to_keep
extract_attr_to_keep(ds1, as_is) ==
  LET present == SelectSeq(as_is, LAMBDA attr : dict_has(ds1.text, attr))
  IN  [i \in DOMAIN present |-> <<present[i], dict_get(ds1.text, present[i])>>]

\* extract_attr_to_rename
extract_attr_to_rename(ds1, to_rename) ==
  LET present == SelectSeq(to_rename, LAMBDA pair : dict_has(ds1.text, pair[2]))
  IN  [i \in DOMAIN present |-> <<present[i][1], dict_get(ds1.text, present[i][2])>>]

\* mutant: the attributes stay in insertion order
reorder_insertion(new_attributes, order) == new_attributes

\* the reordering of update_dataset_attributes: the attributes of
\* order_of_attr first, then the others in insertion order
reorder(new_attributes, order) ==
  LET listed == SelectSeq(order, LAMBDA attr : dict_has(new_attributes, attr))
      first == [i \in DOMAIN listed |-> <<listed[i], dict_get(new_attributes, listed[i])>>]
  IN  first \o SelectSeq(new_attributes, LAMBDA kv : ~dict_has(first, kv[1]))

\* mutant: the metadata of the input is merged last
update_dataset_attributes_input_last(ds, to_append, clock) ==
  LET contrib_attrs == get_contributors(ds, to_append)
      time_attrs == get_time_attributes(ds, clock)
      renamed_attrs == extract_attr_to_rename(ds, attr_to_rename)
      keep_attrs == extract_attr_to_keep(ds, attr_as_is)
  IN  IF contrib_attrs = UnboundLocalError THEN UnboundLocalError
      ELSE IF time_attrs = KeyError THEN KeyError
      ELSE reorder(dict_merge(dict_merge(dict_merge(dict_merge(dict_merge(dict_merge(attr_to_add,
             contrib_attrs), time_attrs), renamed_attrs), keep_attrs), attr_to_add), ds.text),
             order_of_attr)

\* update_dataset_attributes, called at the time clock
update_dataset_attributes(ds, to_append, clock) ==
  LET contrib_attrs == get_contributors(ds, to_append)
      time_attrs == get_time_attributes(ds, clock)
      renamed_attrs == extract_attr_to_rename(ds, attr_to_rename)
      keep_attrs == extract_attr_to_keep(ds, attr_as_is)
  IN  IF contrib_attrs = UnboundLocalError THEN UnboundLocalError
      ELSE IF time_attrs = KeyError THEN KeyError
      ELSE reorder(dict_merge(dict_merge(dict_merge(dict_merge(dict_merge(attr_to_add,
             contrib_attrs), time_attrs), renamed_attrs), keep_attrs), attr_to_add),
             order_of_attr)

\* ----------------------------------------------------------- file selection
\* the value of a string of digits, ValueError for any other string
ValueError == -1

digit_value ==
  [c \in {"0", "1", "2", "3", "4", "5", "6", "7", "8", "9"} |->
     CASE c = "0" -> 0 [] c = "1" -> 1 [] c = "2" -> 2 [] c = "3" -> 3 [] c = "4" -> 4
       [] c = "5" -> 5 [] c = "6" -> 6 [] c = "7" -> 7 [] c = "8" -> 8 [] c = "9" -> 9]

\* \d{n}: every character of the string is a digit
all_digits(str) == \A i \in 1..Len(str) : SubSeq(str, i, i) \in DOMAIN digit_value

\* int(str)
RECURSIVE int(_)
int(str) ==
  IF str = "" \/ ~all_digits(str) THEN ValueError
  ELSE IF Len(str) = 1 THEN digit_value[str]
  ELSE 10 * int(SubSeq(str, 1, Len(str) - 1)) + digit_value[SubSeq(str, Len(str), Len(str))]

\* filename[a:b], counted from 0 as Python does
slice(filename, a, b) ==
  IF a >= Len(filename) THEN ""
  ELSE SubSeq(filename, a + 1, IF b <= Len(filename) THEN b ELSE Len(filename))

\* _profnum_from_filename
profnum_from_filename(filename) == int(slice(filename, 4, 8))

\* _glider_sn_from_filename
glider_sn_from_filename(filename) == int(slice(filename, 1, 4))

\* ^p\d{7}\.nc$
pattern1(filename) ==
  /\ Len(filename) = 11
  /\ slice(filename, 0, 1) = "p"
  /\ all_digits(slice(filename, 1, 8))
  /\ slice(filename, 8, 11) = ".nc"

\* ^p\d{7}_\d{8}\.nc$
pattern2(filename) ==
  /\ Len(filename) = 20
  /\ slice(filename, 0, 1) = "p"
  /\ all_digits(slice(filename, 1, 8))
  /\ slice(filename, 8, 9) = "_"
  /\ all_digits(slice(filename, 9, 17))
  /\ slice(filename, 17, 20) = ".nc"

\* _validate_filename
validate_filename(filename) ==
  IF pattern1(filename) \/ pattern2(filename)
  THEN glider_sn_from_filename(filename) > 0 /\ profnum_from_filename(filename) > 0
  ELSE FALSE

\* list.remove(x): without the first element equal to x
remove(lst, x) ==
  LET first == CHOOSE i \in DOMAIN lst : lst[i] = x /\ \A j \in 1..(i - 1) : lst[j] # x
  IN  SubSeq(lst, 1, first - 1) \o SubSeq(lst, first + 1, Len(lst))

\* the first loop of filter_files_by_profile: the list is iterated by index
\* (i counts from 1) while invalid names are removed from it, so the name
\* after a removed one is skipped
RECURSIVE remove_invalid(_, _)
remove_invalid(lst, i) ==
  IF i > Len(lst) THEN lst
  ELSE IF ~validate_filename(lst[i]) THEN remove_invalid(remove(lst, lst[i]), i + 1)
  ELSE remove_invalid(lst, i + 1)

\* None for a bound on the profile number
NoProfile == -2

\* the test of the second loop of filter_files_by_profile
selected(profnum, first, last) ==
  IF first # NoProfile /\ last # NoProfile THEN first <= profnum /\ profnum <= last
  ELSE IF first # NoProfile THEN profnum >= first
  ELSE IF last # NoProfile THEN profnum <= last
  ELSE TRUE

\* filter_files_by_profile: the list it leaves to the caller and the list it
\* returns, raised when int() raises on a name of the second loop
filter_files_by_profile(lst, first, last) ==
  LET kept == remove_invalid(lst, 1)
      raises == \E i \in DOMAIN kept : profnum_from_filename(kept[i]) = ValueError
  IN  [file_list |-> kept,
       raised |-> raises,
       filtered_files |->
         IF raises THEN <<>>
         ELSE SelectSeq(kept, LAMBDA file : selected(profnum_from_filename(file), first, last))]

\* ---------------------------------------------------------------- inputs
\* pressures: missing, shallow, deep
PresValues == {NaN, 1, 2}

DiveNumbers == {1, 2}

Times == {1, 2, 3}

\* TIME_GPS of a record: missing, or the time of a fix
FixTimes == {NaN, 1}

\* the position of the measurements and of the fixes
MeasPosition == [LATITUDE |-> 50, LONGITUDE |-> 10]

FixPosition == [LATITUDE |-> 51, LONGITUDE |-> 11]

\* sequences over S of length 0..n
SeqsUpTo(S, n) == UNION {[1..k -> S] : k \in 0..n}

EmptyDataset == [f \in {} |-> <<>>]

NoGps == [log_gps_lat |-> <<>>, log_gps_lon |-> <<>>, log_gps_time |-> <<>>]

\* a normalized measurement stream: one record per CTD sample
MeasRecords == [TIME : Times, PRES : PresValues]

MeasStream(recs) ==
  [f \in {"TIME", "LATITUDE", "LONGITUDE", "DEPTH", "PRES"} |->
     CASE f = "TIME" -> [i \in DOMAIN recs |-> recs[i].TIME]
       [] f = "PRES" -> [i \in DOMAIN recs |-> recs[i].PRES]
       [] f = "LATITUDE" -> [i \in DOMAIN recs |-> MeasPosition.LATITUDE]
       [] f = "LONGITUDE" -> [i \in DOMAIN recs |-> MeasPosition.LONGITUDE]
       [] f = "DEPTH" -> [i \in DOMAIN recs |-> IF recs[i].PRES = NaN THEN NaN ELSE recs[i].PRES]]

\* the gps_info group: one entry per GPS fix
FixRecords == [time : Times]

GpsGroup(fixes) ==
  [log_gps_lat |-> [i \in DOMAIN fixes |-> FixPosition.LATITUDE],
   log_gps_lon |-> [i \in DOMAIN fixes |-> FixPosition.LONGITUDE],
   log_gps_time |-> [i \in DOMAIN fixes |-> fixes[i].time]]

\* a hand-built stream for the dive-state functions
StreamRecords == [divenum : DiveNumbers, PRES : PresValues, TIME_GPS : FixTimes]

Stream(recs) ==
  [f \in {"divenum", "PRES", "TIME_GPS"} |->
     CASE f = "divenum" -> [i \in DOMAIN recs |-> recs[i].divenum]
       [] f = "PRES" -> [i \in DOMAIN recs |-> recs[i].PRES]
       [] f = "TIME_GPS" -> [i \in DOMAIN recs |-> recs[i].TIME_GPS]]

\* the streams of tests/test_tools.py and of the worked examples
TestStream == [PRES |-> <<10, 20, 30, 10, 20, 30, 40>>, divenum |-> <<1, 1, 1, 2, 2, 2, 2>>]

OneDiveStream == [PRES |-> <<10, 20, 30>>, divenum |-> <<1, 1, 1>>]

\* a variable of an input record
Var(name, var_dims, coord, var_attrs, values) ==
  [name |-> name, dims |-> var_dims, coord |-> coord, attrs |-> var_attrs, values |-> values]

NoAttrs == [a \in {} |-> ""]

\* sequences over S of length 0..n whose elements have different names
NamedSeqsUpTo(S, n) ==
  {seq \in SeqsUpTo(S, n) : \A i, j \in DOMAIN seq : i # j => seq[i].name # seq[j].name}

\* scalar fields of a dive record: calibration constants, log scalars and
\* others; every name has its own value
ScalarNames == <<"sg_cal_mass", "sg_cal_sg_cal_mass", "sg_calibration", "log_GPS", "magnetic_variation">>

ScalarFields == {Var(ScalarNames[i], <<>>, FALSE, NoAttrs, i) : i \in DOMAIN ScalarNames}

\* fields with dimensions, data variables and coordinates
VectorNames == {"log_gps_lat", "eng_depth", "ctd_time"}

VectorDims == {<<"gps_info">>, <<"sg_data_point">>, <<"sg_data_point", "gps_info">>}

VectorFields == {Var(n, d, c, NoAttrs, <<>>) : n \in VectorNames, d \in VectorDims, c \in BOOLEAN}

\* the records given to split_by_unique_dims
SplitRecords == NamedSeqsUpTo(ScalarFields \cup VectorFields, MaxFields)

\* fields of the measurement axis given to the normalizer: legacy and
\* canonical names, with and without a units attribute
NormNames == <<"temperature", "TEMP", "vert_speed", "temperature_qc">>

NormUnits == {"", "cm/s", "cm s-1", "degrees_Celsius", "Pa"}

\* the one value of the column of a field: a multiple of every divisor of the
\* conversion table, missing for the last field
NormValue(i) == IF i = Len(NormNames) THEN NaN ELSE 10000 * i

NormField(i, u) ==
  Var(NormNames[i], <<"sg_data_point">>, FALSE,
      IF u = "" THEN NoAttrs ELSE [units |-> u], <<NormValue(i)>>)

\* the fields picked by their indices, in the order of the indices
RECURSIVE NormGroup(_, _)
NormGroup(picked, units) ==
  IF picked = {} THEN <<>>
  ELSE LET i == SetMin(picked)
       IN  <<NormField(i, units[i])>> \o NormGroup(picked \ {i}, units)

\* the groups of the measurement axis given to the normalizer: 1 to
\* MaxNormFields fields of different names (the order of the fields of a
\* group has no effect on the normalizer)
NormGroups ==
  UNION {{NormGroup(picked, units) : units \in [picked -> NormUnits]} :
           picked \in {S \in SUBSET DOMAIN NormNames : S # {} /\ Cardinality(S) <= MaxNormFields}}

\* the input record of process_dataset: the measurements as the basestation
\* names them, the gps_info group when there is one, a calibration constant,
\* and, when extra, a field given under its legacy and its canonical name
RawRecord(recs, has_gps, fixes, extra) ==
  LET n == Len(recs)
      point == <<"sg_data_point">>
      meas == <<Var("ctd_time", point, TRUE, NoAttrs, [i \in 1..n |-> recs[i].TIME]),
                Var("latitude", point, TRUE, NoAttrs, full(n, MeasPosition.LATITUDE)),
                Var("longitude", point, TRUE, NoAttrs, full(n, MeasPosition.LONGITUDE)),
                Var("ctd_depth", point, TRUE, NoAttrs, [i \in 1..n |-> recs[i].PRES]),
                Var("ctd_pressure", point, FALSE, [units |-> "dbar"],
                    [i \in 1..n |-> recs[i].PRES])>>
      temps == <<Var("temperature", point, FALSE, [units |-> "degrees_Celsius"], full(n, 5)),
                 Var("TEMP", point, FALSE, [units |-> "K"], full(n, 278))>>
      gps == <<Var("log_gps_lat", <<"gps_info">>, FALSE, NoAttrs, GpsGroup(fixes).log_gps_lat),
               Var("log_gps_lon", <<"gps_info">>, FALSE, NoAttrs, GpsGroup(fixes).log_gps_lon),
               Var("log_gps_time", <<"gps_info">>, FALSE, NoAttrs, GpsGroup(fixes).log_gps_time)>>
  IN  <<Var("sg_cal_mass", <<>>, FALSE, NoAttrs, 52)>> \o meas
        \o (IF extra THEN temps ELSE <<>>) \o (IF has_gps THEN gps ELSE <<>>)

\* measurements with a valid pressure
ValidMeasRecords == {r \in MeasRecords : r.PRES # NaN}

\* the one table in use outside the normalizer's own specification
SomeUnitConversion == CHOOSE t \in UnitConversionTables : TRUE

\* the values converted with one declared pair: missing, and two values that
\* every divisor of the table divides
PairValues == {NaN, 10000, 30000}

\* the table that holds one declared pair and nothing else
table_of(pair) ==
  [u \in {pair.current_unit} |-> [units_name |-> pair.new_unit, factor |-> pair.factor]]

\* the declared pairs that lead from new_unit back to current_unit
inverse_pairs(pair) ==
  {j \in DOMAIN unit1_to_unit2 :
     /\ unit1_to_unit2[j].current_unit = pair.new_unit
     /\ unit1_to_unit2[j].new_unit = pair.current_unit}

\* a record of a stream given to calc_Z: a pressure and a latitude, either
\* of them possibly missing
DepthRecords == [PRES : PresValues, LATITUDE : {NaN, MeasPosition.LATITUDE}]

\* the stream of the records with TIME and the chosen ones of the fields
\* that calc_Z asks for
DepthStream(recs, fields) ==
  [f \in {"TIME"} \cup fields |->
     CASE f = "TIME" -> [i \in DOMAIN recs |-> i]
       [] f = "PRES" -> [i \in DOMAIN recs |-> recs[i].PRES]
       [] f = "LATITUDE" -> [i \in DOMAIN recs |-> recs[i].LATITUDE]
       [] f = "LONGITUDE" -> [i \in DOMAIN recs |-> MeasPosition.LONGITUDE]]

\* the metadata reconciler and the file selection have not run
MetaIdle ==
  /\ ds_attrs = <<>>
  /\ values_to_append = <<>>
  /\ now = 0
  /\ ordered_attributes = <<>>
  /\ reconciled_again = <<>>
  /\ files_given = <<>>
  /\ file_list = <<>>
  /\ start_profile = 0
  /\ end_profile = 0
  /\ filtered_files = <<>>

\* the splitter and the normalizer have not run
NormIdle ==
  /\ ds1_base = <<>>
  /\ split_ds = <<>>
  /\ scalars = <<>>
  /\ field_dims = <<>>
  /\ attrs = <<>>
  /\ attr_warnings = {}
  /\ printed = {}
  /\ logged = {}
  /\ unit_conversion = SomeUnitConversion

\* ------------------------------------------------------------------ states
\* process_dataset, from the normalized stream on
Init ==
  /\ MetaIdle
  /\ pc = "add_gps_info_to_dataset"
  /\ \E recs \in SeqsUpTo(MeasRecords, MaxMeas) : renamed_ds = MeasStream(recs)
  /\ \E fixes \in SeqsUpTo(FixRecords, MaxFix) : gps_info = GpsGroup(fixes)
  /\ dive_number \in DiveNumbers
  /\ ds_new = EmptyDataset
  /\ before = EmptyDataset
  /\ edited = 0
  /\ NormIdle

\* the dive-state functions called on a stream
InitStream ==
  /\ MetaIdle
  /\ pc = "assign_profile_number"
  /\ renamed_ds = EmptyDataset
  /\ gps_info = NoGps
  /\ dive_number = 0
  /\ \/ \E recs \in SeqsUpTo(StreamRecords, MaxLen) : ds_new = Stream(recs)
     \/ ds_new \in {TestStream, OneDiveStream}
  /\ before = EmptyDataset
  /\ edited = 0
  /\ NormIdle

\* the dive-state functions called on a stream that a caller then edits
InitEdit ==
  /\ MetaIdle
  /\ pc = "assign_profile_number"
  /\ renamed_ds = EmptyDataset
  /\ gps_info = NoGps
  /\ dive_number = 0
  /\ \E recs \in SeqsUpTo(StreamRecords, MaxEditLen) : ds_new = Stream(recs)
  /\ before = EmptyDataset
  /\ edited = 0
  /\ NormIdle

AddGpsInfo ==
  /\ pc = "add_gps_info_to_dataset"
  /\ ds_new' = add_gps_info_to_dataset(renamed_ds, gps_info)
  /\ pc' = "add_dive_number"
  /\ UNCHANGED <<renamed_ds, gps_info, dive_number, before, edited>>
  /\ UNCHANGED norm_vars
  /\ UNCHANGED meta_vars

AddDiveNumber ==
  /\ pc = "add_dive_number"
  /\ ds_new' = add_dive_number(ds_new, dive_number)
  /\ pc' = "assign_profile_number"
  /\ UNCHANGED <<renamed_ds, gps_info, dive_number, before, edited>>
  /\ UNCHANGED norm_vars
  /\ UNCHANGED meta_vars

AssignProfileNumber ==
  /\ pc = "assign_profile_number"
  /\ ds_new' = assign_profile_number(ds_new, "divenum")
  /\ pc' = "assign_phase"
  /\ UNCHANGED <<renamed_ds, gps_info, dive_number, before, edited>>
  /\ UNCHANGED norm_vars
  /\ UNCHANGED meta_vars

\* assign_phase raises when the stream has no dive identifier (ValueError,
\* before anything is assigned) or no TIME_GPS (KeyError, after PHASE and
\* PHASE_QC are assigned in place)
AssignPhase ==
  /\ pc = "assign_phase"
  /\ IF divenum_key(ds_new) = ""
     THEN pc' = "error" /\ ds_new' = ds_new
     ELSE IF dims(ds_new) > 0 /\ "TIME_GPS" \notin DOMAIN ds_new
     THEN pc' = "error" /\ ds_new' = assign_phase_until_time_gps(ds_new)
     ELSE pc' = "done" /\ ds_new' = assign_phase(ds_new)
  /\ UNCHANGED <<renamed_ds, gps_info, dive_number, before, edited>>
  /\ UNCHANGED norm_vars
  /\ UNCHANGED meta_vars

Next == AddGpsInfo \/ AddDiveNumber \/ AssignProfileNumber \/ AssignPhase

Spec == Init /\ [][Next]_vars

\* a caller changes the PRES or TIME_GPS value of one record of a labelled
\* stream and runs the dive-state functions again
EditRecord ==
  /\ pc = "done"
  /\ edited = 0
  /\ \E i \in 1..dims(ds_new), P \in PresValues, g \in FixTimes :
       /\ P # ds_new["PRES"][i] \/ g # ds_new["TIME_GPS"][i]
       /\ ds_new' = [f \in {"divenum", "PRES", "TIME_GPS"} |->
                       CASE f = "divenum" -> ds_new["divenum"]
                         [] f = "PRES" -> [ds_new["PRES"] EXCEPT ![i] = P]
                         [] f = "TIME_GPS" -> [ds_new["TIME_GPS"] EXCEPT ![i] = g]]
       /\ edited' = ds_new["divenum"][i]
  /\ before' = ds_new
  /\ pc' = "assign_profile_number"
  /\ UNCHANGED <<renamed_ds, gps_info, dive_number>>
  /\ UNCHANGED norm_vars
  /\ UNCHANGED meta_vars

\* a caller adds one record to a labelled stream and runs the functions again
AddRecord ==
  /\ pc = "done"
  /\ edited = 0
  /\ dims(ds_new) <= MaxEditLen
  /\ \E p \in 0..dims(ds_new), r \in StreamRecords :
       /\ ds_new' = [f \in {"divenum", "PRES", "TIME_GPS"} |->
                       SubSeq(ds_new[f], 1, p) \o <<r[f]>> \o SubSeq(ds_new[f], p + 1, dims(ds_new))]
       /\ edited' = r.divenum
  /\ before' = ds_new
  /\ pc' = "assign_profile_number"
  /\ UNCHANGED <<renamed_ds, gps_info, dive_number>>
  /\ UNCHANGED norm_vars
  /\ UNCHANGED meta_vars

NextStream == AssignProfileNumber \/ AssignPhase

SpecStream == InitStream /\ [][NextStream]_vars

NextEdit == AssignProfileNumber \/ AssignPhase \/ EditRecord \/ AddRecord

SpecEdit == InitEdit /\ [][NextEdit]_vars

\* ------------------------------------------- splitter and normalizer steps
\* the three maps of a group of split_ds
as_maps(group) ==
  [values |-> [name \in {group[i].name : i \in DOMAIN group} |->
                 (CHOOSE v \in Range(group) : v.name = name).values],
   dims |-> [name \in {group[i].name : i \in DOMAIN group} |->
               (CHOOSE v \in Range(group) : v.name = name).dims],
   attrs |-> [name \in {group[i].name : i \in DOMAIN group} |->
                (CHOOSE v \in Range(group) : v.name = name).attrs]]

\* the normalizer's dataset in its current state
current_ds == [values |-> renamed_ds, dims |-> field_dims, attrs |-> attrs]

SplitByUniqueDims ==
  /\ pc = "split_by_unique_dims"
  /\ split_ds' = split_by_unique_dims(ds1_base)
  /\ pc' = "gps_info"
  /\ UNCHANGED <<renamed_ds, gps_info, dive_number, ds_new, before, edited>>
  /\ UNCHANGED <<ds1_base, scalars, field_dims, attrs, attr_warnings, printed, logged, unit_conversion>>
  /\ UNCHANGED meta_vars

\* split_ds[('gps_info',)] raises KeyError when the record has no such group
GetGpsInfo ==
  /\ pc = "gps_info"
  /\ IF <<"gps_info">> \in DOMAIN split_ds
     THEN pc' = "extract_variables" /\ gps_info' = as_maps(split_ds[<<"gps_info">>]).values
     ELSE pc' = "error" /\ gps_info' = gps_info
  /\ UNCHANGED <<renamed_ds, dive_number, ds_new, before, edited>>
  /\ UNCHANGED norm_vars
  /\ UNCHANGED meta_vars

\* split_ds[()] raises KeyError when the record has no scalar field
ExtractVariables ==
  /\ pc = "extract_variables"
  /\ IF <<>> \in DOMAIN split_ds
     THEN pc' = "rename_dimensions" /\ scalars' = extract_variables(split_ds[<<>>])
     ELSE pc' = "error" /\ scalars' = scalars
  /\ UNCHANGED <<renamed_ds, gps_info, dive_number, ds_new, before, edited>>
  /\ UNCHANGED <<ds1_base, split_ds, field_dims, attrs, attr_warnings, printed, logged, unit_conversion>>
  /\ UNCHANGED meta_vars

\* split_ds[('sg_data_point',)] raises KeyError when the record has no such group
RenameDimensions ==
  /\ pc = "rename_dimensions"
  /\ IF <<"sg_data_point">> \in DOMAIN split_ds
     THEN LET r == rename_dimensions(as_maps(split_ds[<<"sg_data_point">>]), dims_rename_dict)
          IN  /\ renamed_ds' = r.ds.values
              /\ field_dims' = r.ds.dims
              /\ attrs' = r.ds.attrs
              /\ logged' = logged \cup r.logged
              /\ pc' = "rename_variables"
     ELSE pc' = "error" /\ UNCHANGED <<renamed_ds, field_dims, attrs, logged>>
  /\ UNCHANGED <<gps_info, dive_number, ds_new, before, edited>>
  /\ UNCHANGED <<ds1_base, split_ds, scalars, attr_warnings, printed, unit_conversion>>
  /\ UNCHANGED meta_vars

RenameVariables ==
  /\ pc = "rename_variables"
  /\ LET r == rename_variables(current_ds, standard_names)
     IN  /\ renamed_ds' = r.ds.values
         /\ field_dims' = r.ds.dims
         /\ attrs' = r.ds.attrs
         /\ printed' = printed \cup r.printed
  /\ pc' = "assign_variable_attributes"
  /\ UNCHANGED <<gps_info, dive_number, ds_new, before, edited>>
  /\ UNCHANGED <<ds1_base, split_ds, scalars, attr_warnings, logged, unit_conversion>>
  /\ UNCHANGED meta_vars

AssignVariableAttributes ==
  /\ pc = "assign_variable_attributes"
  /\ LET r == assign_variable_attributes(current_ds, vocab_attrs, unit_str_format)
     IN  /\ attrs' = r.ds.attrs
         /\ attr_warnings' = r.attr_warnings
         /\ printed' = printed \cup r.attr_warnings
  /\ pc' = "convert_units"
  /\ UNCHANGED <<renamed_ds, gps_info, dive_number, ds_new, before, edited>>
  /\ UNCHANGED <<ds1_base, split_ds, scalars, field_dims, logged, unit_conversion>>
  /\ UNCHANGED meta_vars

\* the product ds[var] * factor keeps or drops the attributes of ds[var],
\* as the installed xarray decides
ConvertUnits ==
  /\ pc = "convert_units"
  /\ \E keep_attrs \in BOOLEAN :
       LET ds == convert_units(current_ds, preferred_units, unit_conversion, keep_attrs)
       IN  renamed_ds' = ds.values /\ attrs' = ds.attrs
  /\ pc' = "add_gps_info_to_dataset"
  /\ UNCHANGED <<gps_info, dive_number, ds_new, before, edited>>
  /\ UNCHANGED <<ds1_base, split_ds, scalars, field_dims, attr_warnings, printed, logged, unit_conversion>>
  /\ UNCHANGED meta_vars

\* a caller runs convert_units once more on the converted stream
ConvertUnitsAgain ==
  /\ pc = "add_gps_info_to_dataset"
  /\ before' = current_ds
  /\ \E keep_attrs \in BOOLEAN :
       LET ds == convert_units(current_ds, preferred_units, unit_conversion, keep_attrs)
       IN  renamed_ds' = ds.values /\ attrs' = ds.attrs
  /\ pc' = "converted_again"
  /\ UNCHANGED <<gps_info, dive_number, ds_new, edited>>
  /\ UNCHANGED <<ds1_base, split_ds, scalars, field_dims, attr_warnings, printed, logged, unit_conversion>>
  /\ UNCHANGED meta_vars

\* calc_Z raises ValueError when PRES, LATITUDE or LONGITUDE is absent
CalcZ ==
  /\ pc = "done"
  /\ IF {"PRES", "LATITUDE", "LONGITUDE"} \subseteq DOMAIN ds_new
     THEN /\ pc' = "drop_vars"
          /\ ds_new' = calc_Z(ds_new)
          /\ attrs' = assign(attrs, "DEPTH_Z", DEPTH_Z_attrs)
     ELSE pc' = "error" /\ UNCHANGED <<ds_new, attrs>>
  /\ UNCHANGED <<renamed_ds, gps_info, dive_number, before, edited>>
  /\ UNCHANGED <<ds1_base, split_ds, scalars, field_dims, attr_warnings, printed, logged, unit_conversion>>
  /\ UNCHANGED meta_vars

\* the end of process_dataset: time and TIME_GPS are removed and the stream
\* is returned with attr_warnings, sg_cal, dc_other and dc_log
DropVars ==
  /\ pc = "drop_vars"
  /\ ds_new' = drop_vars(drop_vars(ds_new, "time"), "TIME_GPS")
  /\ pc' = "returned"
  /\ UNCHANGED <<renamed_ds, gps_info, dive_number, before, edited>>
  /\ UNCHANGED norm_vars
  /\ UNCHANGED meta_vars

\* split_by_unique_dims and extract_variables called on a record, as the
\* tests do
InitSplit ==
  /\ MetaIdle
  /\ pc = "split_by_unique_dims"
  /\ ds1_base \in SplitRecords
  /\ split_ds = <<>>
  /\ scalars = <<>>
  /\ field_dims = <<>>
  /\ attrs = <<>>
  /\ attr_warnings = {}
  /\ printed = {}
  /\ logged = {}
  /\ unit_conversion = SomeUnitConversion
  /\ renamed_ds = EmptyDataset
  /\ gps_info = NoGps
  /\ dive_number = 0
  /\ ds_new = EmptyDataset
  /\ before = EmptyDataset
  /\ edited = 0

NextSplit == SplitByUniqueDims \/ GetGpsInfo \/ ExtractVariables

SpecSplit == InitSplit /\ [][NextSplit]_vars

\* the normalizer called on a group of the measurement axis
InitNorm ==
  /\ MetaIdle
  /\ pc = "rename_dimensions"
  /\ ds1_base = <<>>
  /\ \E group \in NormGroups : split_ds = [d \in {<<"sg_data_point">>} |-> group]
  /\ scalars = <<>>
  /\ field_dims = <<>>
  /\ attrs = <<>>
  /\ attr_warnings = {}
  /\ printed = {}
  /\ logged = {}
  /\ unit_conversion \in UnitConversionTables
  /\ renamed_ds = EmptyDataset
  /\ gps_info = NoGps
  /\ dive_number = 0
  /\ ds_new = EmptyDataset
  /\ before = EmptyDataset
  /\ edited = 0

NextNorm ==
  RenameDimensions \/ RenameVariables \/ AssignVariableAttributes \/ ConvertUnits
    \/ ConvertUnitsAgain

SpecNorm == InitNorm /\ [][NextNorm]_vars

\* a field is converted with one declared pair: convert_units is given the
\* table of that pair and its target unit as the preferred unit
ConvertPair ==
  /\ pc = "convert_pair"
  /\ \E keep_attrs \in BOOLEAN :
       LET target == {unit_conversion[u].units_name : u \in DOMAIN unit_conversion}
           ds == convert_units(current_ds, target, unit_conversion, keep_attrs)
       IN  renamed_ds' = ds.values /\ attrs' = ds.attrs
  /\ pc' = "convert_back"
  /\ UNCHANGED <<gps_info, dive_number, ds_new, before, edited>>
  /\ UNCHANGED <<ds1_base, split_ds, scalars, field_dims, attr_warnings, printed, logged, unit_conversion>>
  /\ UNCHANGED meta_vars

\* the field is converted back with the declared pair that leads from the
\* target unit to the unit it had; there may be none
ConvertBack ==
  /\ pc = "convert_back"
  /\ LET unit == CHOOSE u \in DOMAIN unit_conversion : TRUE
         pair == [current_unit |-> unit, new_unit |-> unit_conversion[unit].units_name,
                  factor |-> unit_conversion[unit].factor]
     IN  IF inverse_pairs(pair) = {}
         THEN pc' = "no_inverse" /\ UNCHANGED <<renamed_ds, attrs>>
         ELSE /\ \E j \in inverse_pairs(pair), keep_attrs \in BOOLEAN :
                   LET ds == convert_units(current_ds, {unit}, table_of(unit1_to_unit2[j]), keep_attrs)
                   IN  renamed_ds' = ds.values /\ attrs' = ds.attrs
              /\ pc' = "round_trip"
  /\ UNCHANGED <<gps_info, dive_number, ds_new, before, edited>>
  /\ UNCHANGED <<ds1_base, split_ds, scalars, field_dims, attr_warnings, printed, logged, unit_conversion>>
  /\ UNCHANGED meta_vars

\* one value in the unit of a declared pair, as test_convert_units_var has it
InitUnits ==
  /\ MetaIdle
  /\ pc = "convert_pair"
  /\ \E j \in DOMAIN unit1_to_unit2, value \in PairValues :
       /\ unit_conversion = table_of(unit1_to_unit2[j])
       /\ renamed_ds = [var \in {"velo1"} |-> <<value>>]
       /\ attrs = [var \in {"velo1"} |-> [units |-> unit1_to_unit2[j].current_unit]]
  /\ field_dims = [var \in {"velo1"} |-> <<"N_MEASUREMENTS">>]
  /\ before = [values |-> renamed_ds, dims |-> field_dims, attrs |-> attrs]
  /\ ds1_base = <<>>
  /\ split_ds = <<>>
  /\ scalars = <<>>
  /\ attr_warnings = {}
  /\ printed = {}
  /\ logged = {}
  /\ gps_info = NoGps
  /\ dive_number = 0
  /\ ds_new = EmptyDataset
  /\ edited = 0

NextUnits == ConvertPair \/ ConvertBack

SpecUnits == InitUnits /\ [][NextUnits]_vars

\* calc_Z called on a stream that has some of PRES, LATITUDE and LONGITUDE
InitDepth ==
  /\ MetaIdle
  /\ pc = "done"
  /\ \E recs \in SeqsUpTo(DepthRecords, MaxMeas),
        fields \in SUBSET {"PRES", "LATITUDE", "LONGITUDE"} :
       ds_new = DepthStream(recs, fields)
  /\ before = ds_new
  /\ renamed_ds = EmptyDataset
  /\ gps_info = NoGps
  /\ dive_number = 0
  /\ edited = 0
  /\ NormIdle

NextDepth == CalcZ

SpecDepth == InitDepth /\ [][NextDepth]_vars

\* process_dataset on a dive record
InitRecord ==
  /\ MetaIdle
  /\ pc = "split_by_unique_dims"
  /\ \E recs \in SeqsUpTo(ValidMeasRecords, MaxMeas), has_gps \in BOOLEAN,
        fixes \in SeqsUpTo(FixRecords, MaxFix), extra \in BOOLEAN :
       /\ (~has_gps => fixes = <<>>)
       /\ ds1_base = RawRecord(recs, has_gps, fixes, extra)
  /\ dive_number = SetMin(DiveNumbers)
  /\ split_ds = <<>>
  /\ scalars = <<>>
  /\ field_dims = <<>>
  /\ attrs = <<>>
  /\ attr_warnings = {}
  /\ printed = {}
  /\ logged = {}
  /\ unit_conversion = SomeUnitConversion
  /\ renamed_ds = EmptyDataset
  /\ gps_info = NoGps
  /\ ds_new = EmptyDataset
  /\ before = EmptyDataset
  /\ edited = 0

NextRecord ==
  \/ SplitByUniqueDims \/ GetGpsInfo \/ ExtractVariables
  \/ RenameDimensions \/ RenameVariables \/ AssignVariableAttributes \/ ConvertUnits
  \/ AddGpsInfo \/ AddDiveNumber \/ AssignProfileNumber \/ AssignPhase
  \/ CalcZ \/ DropVars

SpecRecord == InitRecord /\ [][NextRecord]_vars

\* --------------------------------------------------- metadata reconciler
\* an attribute that the metadata does not have
Absent == "<absent>"

\* the metadata of a dive record, after the files of the Seaglider
\* basestation: name, the values a file may have under it
CreatorNames == {Absent, "Craig Lee", "Lee, Craig"}
ContributorNames == {Absent, "Craig Lee", "Eleanor Frajka-Williams"}
Institutions ==
  {Absent, "School of Oceanography, University of Washington",
   "University of Hamburg - Institute of Oceanography"}
CoverageStarts == {Absent, "2023-01-01T00:00:00Z", "20230101T000000Z"}
CreationDates == {Absent, "2023-01-02T00:00:00Z"}
Titles == {Absent, "sg015 Labrador Sea"}
Summaries == {Absent, "Labrador Sea"}
StartTimes == {3661}
Clock == 86400

\* the metadata with the attributes that are there, start_time a number
Metadata(text, start_time) ==
  [text |-> SelectSeq(text, LAMBDA kv : kv[2] # Absent),
   number |-> [i \in 1..Cardinality(start_time) |-> <<"start_time", CHOOSE t \in start_time : TRUE>>]]

\* update_dataset_attributes on the metadata of a dive record
InitAttrs ==
  /\ pc = "update_dataset_attributes"
  /\ \E creator_name \in CreatorNames, contributor_name \in ContributorNames,
        institution \in Institutions,
        time_coverage_start \in CoverageStarts, date_created \in CreationDates,
        title \in Titles, summary \in Summaries,
        start_time \in {{}} \cup {{t} : t \in StartTimes} :
       ds_attrs = Metadata(<< <<"title", title>>, <<"summary", summary>>,
                              <<"creator_name", creator_name>>,
                              <<"contributor_name", contributor_name>>,
                              <<"institution", institution>>,
                              <<"time_coverage_start", time_coverage_start>>,
                              <<"date_created", date_created>> >>, start_time)
  /\ values_to_append \in {None, contrib_to_append}
  /\ now = Clock
  /\ ordered_attributes = <<>>
  /\ reconciled_again = <<>>
  /\ files_given = <<>>
  /\ file_list = <<>>
  /\ start_profile = 0
  /\ end_profile = 0
  /\ filtered_files = <<>>
  /\ renamed_ds = EmptyDataset
  /\ gps_info = NoGps
  /\ dive_number = 0
  /\ ds_new = EmptyDataset
  /\ before = EmptyDataset
  /\ edited = 0
  /\ NormIdle

UpdateDatasetAttributes ==
  /\ pc = "update_dataset_attributes"
  /\ LET result == update_dataset_attributes(ds_attrs, values_to_append, now)
     IN  IF result \in {UnboundLocalError, KeyError}
         THEN pc' = "error" /\ UNCHANGED ordered_attributes
         ELSE pc' = "updated" /\ ordered_attributes' = result
  /\ UNCHANGED <<ds_attrs, values_to_append, now, reconciled_again>>
  /\ UNCHANGED <<files_given, file_list, start_profile, end_profile, filtered_files>>
  /\ UNCHANGED <<renamed_ds, gps_info, dive_number, ds_new, before, edited>>
  /\ UNCHANGED norm_vars

\* update_dataset_attributes on the metadata it returned, at once or a
\* second later
UpdateDatasetAttributesAgain ==
  /\ pc = "updated"
  /\ \E clock \in {now, now + 1} :
       /\ now' = clock
       /\ LET result == update_dataset_attributes([text |-> ordered_attributes, number |-> <<>>],
                                                  values_to_append, clock)
          IN  IF result \in {UnboundLocalError, KeyError}
              THEN pc' = "error_again" /\ UNCHANGED reconciled_again
              ELSE pc' = "updated_again" /\ reconciled_again' = result
  /\ UNCHANGED <<ds_attrs, values_to_append, ordered_attributes>>
  /\ UNCHANGED <<files_given, file_list, start_profile, end_profile, filtered_files>>
  /\ UNCHANGED <<renamed_ds, gps_info, dive_number, ds_new, before, edited>>
  /\ UNCHANGED norm_vars

NextAttrs == UpdateDatasetAttributes \/ UpdateDatasetAttributesAgain

SpecAttrs == InitAttrs /\ [][NextAttrs]_vars

\* ------------------------------------------------------------ assign_phase
\* the names that assign_phase knows for the dive identifier, and none
IdentifierNames == {"dive_number", "divenum", "dive_num", ""}

\* a stream with its dive identifier under the name key, with or without
\* the fix times
PhaseStream(recs, key, with_gps) ==
  [f \in ({key} \ {""}) \cup {"PRES"} \cup (IF with_gps THEN {"TIME_GPS"} ELSE {}) |->
     CASE f = "PRES" -> [i \in DOMAIN recs |-> recs[i].PRES]
       [] f = "TIME_GPS" -> [i \in DOMAIN recs |-> recs[i].TIME_GPS]
       [] OTHER -> [i \in DOMAIN recs |-> recs[i].divenum]]

\* assign_phase called on a stream
InitPhase ==
  /\ MetaIdle
  /\ pc = "assign_phase"
  /\ renamed_ds = EmptyDataset
  /\ gps_info = NoGps
  /\ dive_number = 0
  /\ \E recs \in SeqsUpTo(StreamRecords, MaxPhaseLen), key \in IdentifierNames,
        with_gps \in BOOLEAN :
       ds_new = PhaseStream(recs, key, with_gps)
  /\ before = EmptyDataset
  /\ edited = 0
  /\ NormIdle

NextPhase == AssignPhase

SpecPhase == InitPhase /\ [][NextPhase]_vars

\* ----------------------------------------------------------- file selection
\* names of basestation files and of other files of a directory
FileNames ==
  {"p0420001.nc", "p0420003_20100903.nc", "p0420002.txt", "readme.txt", "p0000001.nc"}

Profiles == {NoProfile, 1, 2}

\* filter_files_by_profile called on a list of names
InitFiles ==
  /\ pc = "filter_files_by_profile"
  /\ files_given \in SeqsUpTo(FileNames, MaxFiles)
  /\ file_list = files_given
  /\ start_profile \in Profiles
  /\ end_profile \in Profiles
  /\ filtered_files = <<>>
  /\ ds_attrs = <<>>
  /\ values_to_append = <<>>
  /\ now = 0
  /\ ordered_attributes = <<>>
  /\ reconciled_again = <<>>
  /\ renamed_ds = EmptyDataset
  /\ gps_info = NoGps
  /\ dive_number = 0
  /\ ds_new = EmptyDataset
  /\ before = EmptyDataset
  /\ edited = 0
  /\ NormIdle

FilterFilesByProfile ==
  /\ pc = "filter_files_by_profile"
  /\ LET result == filter_files_by_profile(file_list, start_profile, end_profile)
     IN  /\ file_list' = result.file_list
         /\ filtered_files' = result.filtered_files
         /\ pc' = IF result.raised THEN "error" ELSE "filtered"
  /\ UNCHANGED <<files_given, start_profile, end_profile>>
  /\ UNCHANGED <<ds_attrs, values_to_append, now, ordered_attributes, reconciled_again>>
  /\ UNCHANGED <<renamed_ds, gps_info, dive_number, ds_new, before, edited>>
  /\ UNCHANGED norm_vars

NextFiles == FilterFilesByProfile

SpecFiles == InitFiles /\ [][NextFiles]_vars

\* ======================================================== properties
\* assign_profile_number has returned
ProfileReturned == pc \in {"assign_phase", "done", "error"}

\* assign_profile_number and assign_phase have both returned
Done == pc = "done"

Dives(ds) == {ds["divenum"][i] : i \in DOMAIN ds["divenum"]}

IndicesOf(ds, d) == {i \in DOMAIN ds["divenum"] : ds["divenum"][i] = d}

Start(ds, d) == SetMin(IndicesOf(ds, d))

End(ds, d) == SetMax(IndicesOf(ds, d))

\* the records of every dive form an index range
Contiguous(ds) == \A d \in Dives(ds) : IndicesOf(ds, d) = Start(ds, d)..End(ds, d)

\* the indices of the range of d whose PRES is valid and is not exceeded by
\* any valid PRES of the range
MaxPresIndices(ds, d) ==
  LET range == Start(ds, d)..End(ds, d)
  IN  {p \in range :
         /\ ds["PRES"][p] # NaN
         /\ \A i \in range : ds["PRES"][i] = NaN \/ ds["PRES"][i] <= ds["PRES"][p]}

\* the indices of the range of d with a valid GPS fix time
GpsIndices(ds, d) == {i \in Start(ds, d)..End(ds, d) : ds["TIME_GPS"][i] # NaN}

\* the surface interval of d, from its first to its second valid GPS index:
\* the dive has two fixes, one of them at or before i, at most one before i
SurfaceIndices(ds, d) ==
  LET G == GpsIndices(ds, d)
  IN  {i \in Start(ds, d)..End(ds, d) :
         /\ Cardinality(G) >= 2
         /\ \E g \in G : g <= i
         /\ Cardinality({g \in G : g < i}) <= 1}

C2_ProfileNumber ==
  (ProfileReturned /\ dims(ds_new) > 0) =>
    /\ "PROFILE_NUMBER" \in DOMAIN ds_new
    /\ \A i \in 1..dims(ds_new) :
         LET c == ds_new["dive_num_cast"][i]
             P == ds_new["PROFILE_NUMBER"][i]
         IN  /\ c # NaN /\ P # NaN
             /\ P = 2 * c - 2
             /\ P % 2 = 0
             /\ (c % 2 = 0) => ((P \div 2) % 2 = 1)
             /\ (c % 2 = 1) => ((P \div 2) % 2 = 0)

\* two dives, the one processed first with a descent and an ascent record
C2_Witness ==
  /\ ProfileReturned
  /\ Cardinality(Dives(ds_new)) >= 2
  /\ LET d == SetMin(Dives(ds_new))
     IN  \E i, j \in IndicesOf(ds_new, d) :
           /\ ds_new["PROFILE_NUMBER"][i] = 2 * (2 * d - 1)
           /\ ds_new["PROFILE_NUMBER"][j] = 2 * (2 * d)

\* C3 as stated: the split of a dive is at the smallest index of its maximum
\* valid pressure, and every later occurrence of the maximum is labelled
\* ascent: dive_num_cast = d + 0.5 and PHASE = 1.
C3_LaterMaxIsPhase1 ==
  (Done /\ Contiguous(ds_new)) =>
    \A d \in Dives(ds_new) :
      LET M == MaxPresIndices(ds_new, d)
          p == SetMin(M)
      IN  M # {} =>
            /\ ds_new["PRES"][p] # NaN
            /\ \A i \in Start(ds_new, d)..p : ds_new["dive_num_cast"][i] = 2 * d
            /\ \A i \in M \ {p} :
                 /\ ds_new["dive_num_cast"][i] = 2 * d + 1
                 /\ ds_new["PHASE"][i] = 1

\* C3 amended: the split of a dive is at the smallest index of its maximum
\* valid pressure (a NaN record is never the split while the dive has a valid
\* pressure); every later occurrence of the maximum has dive_num_cast = d + 0.5,
\* and PHASE = 1 unless it lies in the surface interval, where PHASE = 3.
C3_FirstOccurrence ==
  (Done /\ Contiguous(ds_new)) =>
    \A d \in Dives(ds_new) :
      LET M == MaxPresIndices(ds_new, d)
          p == SetMin(M)
          S == SurfaceIndices(ds_new, d)
      IN  M # {} =>
            /\ ds_new["PRES"][p] # NaN
            /\ \A i \in Start(ds_new, d)..p : ds_new["dive_num_cast"][i] = 2 * d
            /\ \A i \in M \ {p} :
                 /\ ds_new["dive_num_cast"][i] = 2 * d + 1
                 /\ ds_new["PHASE"][i] = IF i \in S THEN 3 ELSE 1

\* a dive that starts with a NaN record and reaches its maximum twice, the
\* second time outside the surface interval
C3_Witness ==
  /\ Done /\ Contiguous(ds_new)
  /\ \E d \in Dives(ds_new) :
       /\ ds_new["PRES"][Start(ds_new, d)] = NaN
       /\ Cardinality(MaxPresIndices(ds_new, d)) >= 2
       /\ ds_new["PHASE"][SetMax(MaxPresIndices(ds_new, d))] = 1

Nth(S, k) == CHOOSE x \in S : Cardinality({y \in S : y < x}) = k - 1

\* the values of field f at the records of dive d, in stream order
Proj(ds, d, f) == [k \in 1..Cardinality(IndicesOf(ds, d)) |-> ds[f][Nth(IndicesOf(ds, d), k)]]

\* dive d has the same records, with the same PRES and TIME_GPS, in a and b
SameOwnRecords(a, b, d) ==
  /\ Proj(a, d, "PRES") = Proj(b, d, "PRES")
  /\ Proj(a, d, "TIME_GPS") = Proj(b, d, "TIME_GPS")

SameLabels(a, b, d) ==
  \A f \in {"dive_num_cast", "PROFILE_NUMBER", "PHASE"} : Proj(a, d, f) = Proj(b, d, f)

\* C6 as stated: for any stream, interleaved or not, changing or adding a
\* record of one dive leaves dive_num_cast, PROFILE_NUMBER and PHASE at the
\* records of every other dive as they were.
C6_IndependentAnyStream ==
  (Done /\ edited # 0) =>
    \A d \in Dives(before) \ {edited} :
      SameOwnRecords(before, ds_new, d) => SameLabels(before, ds_new, d)

\* C6 amended: the same, for streams in which the records of every dive form
\* an index range, before and after the change.
C6_IndependentContiguous ==
  (Done /\ edited # 0 /\ Contiguous(before) /\ Contiguous(ds_new)) =>
    \A d \in Dives(before) \ {edited} :
      SameOwnRecords(before, ds_new, d) => SameLabels(before, ds_new, d)

\* a record was added in front of the only record of one dive of a two-dive
\* stream and turned that record into an ascent record, and the other dive
\* kept its records
C6_Witness ==
  /\ Done /\ edited # 0 /\ Contiguous(before) /\ Contiguous(ds_new)
  /\ dims(ds_new) = dims(before) + 1
  /\ edited \in Dives(before)
  /\ \A i \in IndicesOf(before, edited) : before["dive_num_cast"][i] = 2 * edited
  /\ ds_new["dive_num_cast"][End(ds_new, edited)] = 2 * edited + 1
  /\ \E d \in Dives(before) \ {edited} : SameOwnRecords(before, ds_new, d)

IsTestStream == ds_new["PRES"] = TestStream["PRES"] /\ ds_new["divenum"] = TestStream["divenum"]

\* C7 as stated: for dive numbers [1,1,1,2,2,2,2] and pressures
\* [10,20,30,10,20,30,40], dive_num_cast is [1,1,1,2,2,2.5,2.5] and
\* PROFILE_NUMBER is [1,1,1,3,3,4,4] (both columns in halves).
C7_TestExpectation ==
  (ProfileReturned /\ IsTestStream) =>
    /\ ds_new["dive_num_cast"] = <<2, 2, 2, 4, 4, 5, 5>>
    /\ ds_new["PROFILE_NUMBER"] = <<2, 2, 2, 6, 6, 8, 8>>

\* the largest value of a column
ColumnMax(column) == SetMax({column[i] : i \in DOMAIN column})

\* the record at which a single-dive stream is split: the first record with
\* the maximum valid pressure, the first record when no pressure is valid
SplitIndex(ds) ==
  LET valid == {i \in 1..dims(ds) : ds["PRES"][i] # NaN}
  IN  IF valid = {} THEN 1
      ELSE SetMin({p \in valid : \A i \in valid : ds["PRES"][i] <= ds["PRES"][p]})

\* C8 as stated: after profile numbers are assigned to the fused stream of a
\* dive record with dive number n, the maximum of PROFILE_NUMBER is 2*n
\* (PROFILE_NUMBER in halves).
C8_MaxProfileIsTwiceDive ==
  (ProfileReturned /\ dims(ds_new) > 0) =>
    ColumnMax(ds_new["PROFILE_NUMBER"]) = 2 * (2 * dive_number)

\* C8 amended: on a non-empty fused stream the maximum of PROFILE_NUMBER is
\* 2*n when a record follows the record at which the dive is split, and
\* 2*n - 1 when the split record is the last one.
C8_MaxProfile ==
  (ProfileReturned /\ dims(ds_new) > 0) =>
    ColumnMax(ds_new["PROFILE_NUMBER"]) =
      IF SplitIndex(ds_new) < dims(ds_new) THEN 2 * (2 * dive_number)
      ELSE 2 * (2 * dive_number - 1)

\* a dive with measurements and a GPS fix after the deepest one
C8_Witness ==
  /\ ProfileReturned
  /\ Len(renamed_ds["TIME"]) >= 2
  /\ Len(gps_info.log_gps_time) >= 1
  /\ ds_new["PRES"][SplitIndex(ds_new)] # NaN
  /\ ds_new["TIME_GPS"][dims(ds_new)] # NaN
  /\ ColumnMax(ds_new["PROFILE_NUMBER"]) = 2 * (2 * dive_number)

\* add_gps_info_to_dataset has returned
Fused == pc \in {"add_dive_number", "assign_profile_number", "assign_phase", "done", "error"}

GpsFields == {"LATITUDE_GPS", "LONGITUDE_GPS", "TIME_GPS"}

\* C9: the stream returned by add_gps_info_to_dataset has the measurement
\* fields and the GPS fields, and every field on N_MEASUREMENTS has the length
\* of the input stream plus the number of GPS fixes.
C9_FusedLength ==
  Fused =>
    /\ (DOMAIN renamed_ds \cup GpsFields) \subseteq DOMAIN ds_new
    /\ \A f \in DOMAIN ds_new :
         Len(ds_new[f]) = Len(renamed_ds["TIME"]) + Len(gps_info.log_gps_time)

\* two fixes with the same time fused into a stream of two measurements
C9_Witness ==
  /\ pc = "add_dive_number"
  /\ Len(renamed_ds["TIME"]) = 2
  /\ Len(gps_info.log_gps_time) = 2
  /\ gps_info.log_gps_time[1] = gps_info.log_gps_time[2]
  /\ Len(ds_new["PRES"]) = 4 /\ Len(ds_new["TIME_GPS"]) = 4

FusedFields == {"TIME", "LATITUDE", "LONGITUDE", "DEPTH", "PRES"} \cup GpsFields

\* the k-th record of the fused stream
OutRecord(k) == [f \in FusedFields |-> ds_new[f][k]]

\* the i-th measurement as a record of the fused stream
MeasRecord(i) == [f \in FusedFields |-> IF f \in DOMAIN renamed_ds THEN renamed_ds[f][i] ELSE NaN]

\* the j-th GPS fix as a record of the fused stream
FixRecord(j) ==
  [f \in FusedFields |->
     CASE f \in {"TIME", "TIME_GPS"} -> gps_info.log_gps_time[j]
       [] f \in {"LATITUDE", "LATITUDE_GPS"} -> gps_info.log_gps_lat[j]
       [] f \in {"LONGITUDE", "LONGITUDE_GPS"} -> gps_info.log_gps_lon[j]
       [] f = "DEPTH" -> 0
       [] f = "PRES" -> NaN]

\* C10: when add_gps_info_to_dataset returns, TIME is non-decreasing along
\* N_MEASUREMENTS, and the records of the fused stream are the measurements
\* and the GPS fixes, each with its own field values, each as often as given.
C10_SortedByTime ==
  (pc = "add_dive_number") =>
    /\ \A i \in 1..(dims(ds_new) - 1) : ds_new["TIME"][i] <= ds_new["TIME"][i + 1]
    /\ LET out == [k \in 1..dims(ds_new) |-> OutRecord(k)]
           meas == [i \in DOMAIN renamed_ds["TIME"] |-> MeasRecord(i)]
           fix == [j \in DOMAIN gps_info.log_gps_time |-> FixRecord(j)]
       IN  \A k \in DOMAIN out :
             Cardinality({m \in DOMAIN out : out[m] = out[k]}) =
               Cardinality({i \in DOMAIN meas : meas[i] = out[k]})
               + Cardinality({j \in DOMAIN fix : fix[j] = out[k]})

\* measurements given in descending time order with different pressures, and
\* a GPS fix older than both
C10_Witness ==
  /\ pc = "add_dive_number"
  /\ Len(renamed_ds["TIME"]) = 2
  /\ renamed_ds["TIME"][1] > renamed_ds["TIME"][2]
  /\ renamed_ds["PRES"][1] # renamed_ds["PRES"][2]
  /\ \E j \in DOMAIN gps_info.log_gps_time : gps_info.log_gps_time[j] < renamed_ds["TIME"][2]
  /\ ds_new["TIME_GPS"][1] # NaN
  /\ ds_new["PRES"][dims(ds_new)] = renamed_ds["PRES"][1]

\* the dive record has a gps_info group
HasGpsGroup(ds) == \E i \in DOMAIN ds : ~ds[i].coord /\ ds[i].dims = <<"gps_info">>

\* process_dataset has returned its result
Returned == pc = "returned"

\* C11 as stated: when the dive record has no gps_info group, process_dataset
\* raises no error: it skips the GPS fusion and completes the other stages.
C11_NoGpsCompletes == (~HasGpsGroup(ds1_base)) => pc # "error"

\* the records of the stream that carry a GPS position
FixOrigin(ds) == {k \in 1..dims(ds) : ds["LATITUDE_GPS"][k] # NaN}

\* record k of the stream mirrors a GPS fix of the gps_info group on the
\* given GPS fields
MirrorsFix(ds, k, fields) ==
  /\ ds["LATITUDE_GPS"][k] = ds["LATITUDE"][k]
  /\ ds["LONGITUDE_GPS"][k] = ds["LONGITUDE"][k]
  /\ "TIME_GPS" \in fields => ds["TIME_GPS"][k] = ds["TIME"][k]
  /\ ds["DEPTH"][k] = 0
  /\ \E j \in DOMAIN gps_info.log_gps_time :
       /\ gps_info.log_gps_time[j] = ds["TIME"][k]
       /\ gps_info.log_gps_lat[j] = ds["LATITUDE"][k]
       /\ gps_info.log_gps_lon[j] = ds["LONGITUDE"][k]

\* record k of the stream is a measurement, with every given GPS field missing
IsMeasurement(ds, k, fields) ==
  /\ \A f \in fields : ds[f][k] = NaN
  /\ \E i \in DOMAIN renamed_ds["TIME"] :
       \A f \in {"TIME", "LATITUDE", "LONGITUDE", "DEPTH", "PRES"} : renamed_ds[f][i] = ds[f][k]

\* the stream has the given GPS fields, as many records mirror a fix as
\* there are fixes, and every other record is a measurement
GpsMirrored(ds, fields) ==
  /\ fields \subseteq DOMAIN ds
  /\ Cardinality(FixOrigin(ds)) = Len(gps_info.log_gps_time)
  /\ \A k \in 1..dims(ds) :
       IF k \in FixOrigin(ds) THEN MirrorsFix(ds, k, fields) ELSE IsMeasurement(ds, k, fields)

\* C12 as stated: the stream returned by process_dataset has LATITUDE_GPS,
\* LONGITUDE_GPS and TIME_GPS; at a record of a GPS fix they equal LATITUDE,
\* LONGITUDE and TIME (with DEPTH = 0), at a measurement they are missing.
C12_GpsFieldsReturned == Returned => GpsMirrored(ds_new, GpsFields)

\* C12 amended: the returned stream has LATITUDE_GPS and LONGITUDE_GPS, which
\* equal LATITUDE and LONGITUDE at a record of a GPS fix (with DEPTH = 0) and
\* are missing at a measurement; TIME_GPS mirrors TIME in the same way until
\* the last step of process_dataset, which removes it from the stream.
C12_GpsMirrored ==
  /\ pc = "drop_vars" => GpsMirrored(ds_new, GpsFields)
  /\ Returned => /\ GpsMirrored(ds_new, GpsFields \ {"TIME_GPS"})
                 /\ "TIME_GPS" \notin DOMAIN ds_new

\* a returned stream of two measurements and two fixes, one fix older than
\* the measurements
C12_Witness ==
  /\ Returned
  /\ Len(renamed_ds["TIME"]) = 2
  /\ Len(gps_info.log_gps_time) = 2
  /\ dims(ds_new) = 4
  /\ ds_new["LATITUDE_GPS"][1] # NaN
  /\ ds_new["LATITUDE_GPS"][1] = ds_new["LATITUDE"][1]
  /\ \E k \in 2..4 : ds_new["LONGITUDE_GPS"][k] = NaN /\ ds_new["PRES"][k] # NaN

\* split_by_unique_dims has returned
SplitDone == pc \in {"gps_info", "extract_variables", "rename_dimensions", "error"} /\ ds1_base # <<>>

\* the mapping from signature to the set of fields of the group
GroupSets(groups) == [sig \in DOMAIN groups |-> Range(groups[sig])]

\* the signatures of the groups in which a field is found
GroupsOf(groups, v) == {sig \in DOMAIN groups : v \in Range(groups[sig])}

\* the orderings of the fields of a record
Orderings(n) == {p \in [1..n -> 1..n] : \A i, j \in 1..n : i # j => p[i] # p[j]}

Permuted(ds, p) == [i \in DOMAIN ds |-> ds[p[i]]]

\* the grouping is the same for every ordering of the fields of the record
SameForEveryOrdering ==
  \A p \in Orderings(Len(ds1_base)) :
    GroupSets(split_by_unique_dims(Permuted(ds1_base, p))) = GroupSets(split_ds)

\* C13 as stated: every field of the input record, data variable or
\* coordinate, is in exactly one group, the group keyed by its ordered tuple
\* of dimension names, and the mapping from signature to set of fields is the
\* same for every ordering of the fields.
C13_EveryFieldOneGroup ==
  SplitDone =>
    /\ \A i \in DOMAIN ds1_base : GroupsOf(split_ds, ds1_base[i]) = {ds1_base[i].dims}
    /\ SameForEveryOrdering

\* what split_by_unique_dims does: every data variable of the input record
\* is in exactly one group, the group keyed by its ordered tuple of dimension
\* names; a coordinate is not grouped by its own signature: it is in the
\* groups of the data variables that have all its dimensions, and in no
\* other; the mapping from signature to set of fields is the same for every
\* ordering of the fields.
DataVarsPartition ==
  SplitDone =>
    /\ \A i \in DOMAIN ds1_base :
         LET v == ds1_base[i]
         IN  IF v.coord
             THEN GroupsOf(split_ds, v) =
                    {ds1_base[j].dims : j \in {k \in DOMAIN ds1_base :
                        ~ds1_base[k].coord /\ Range(v.dims) \subseteq Range(ds1_base[k].dims)}}
             ELSE GroupsOf(split_ds, v) = {v.dims}
    /\ \A sig \in DOMAIN split_ds : Range(split_ds[sig]) \subseteq Range(ds1_base)
    /\ SameForEveryOrdering

\* a record of three data variables, two of them with the same signature,
\* split into two groups
DataVarsSplit ==
  /\ SplitDone
  /\ Len(ds1_base) = 3
  /\ \A i \in DOMAIN ds1_base : ~ds1_base[i].coord
  /\ Cardinality(DOMAIN split_ds) = 2
  /\ \E sig \in DOMAIN split_ds : Len(split_ds[sig]) = 2 /\ Len(sig) = 2

\* extract_variables has returned
Extracted == pc = "rename_dimensions" /\ scalars # <<>>

\* a name without its leading 'sg_cal_', or without its leading 'sg_cal'
\* when no underscore follows
WithoutPrefix(name) ==
  IF startswith(name, "sg_cal_") THEN SubSeq(name, Len("sg_cal_") + 1, Len(name))
  ELSE SubSeq(name, Len("sg_cal") + 1, Len(name))

\* the field is held by the sub-group under the name
Holds(subgroup, name, v) == name \in DOMAIN subgroup /\ subgroup[name] = v.values

\* C14 as stated: extract_variables puts every scalar field in exactly one of
\* three sub-groups: a field whose name starts with 'sg_cal' in sg_cal under
\* its name without that prefix (sg_cal_mass as mass), a field whose name
\* starts with 'log_' in dc_log under its name, every other field in dc_other
\* under its name; together the sub-groups hold every scalar field once.
C14_ScalarSubgroups ==
  Extracted =>
    LET group == split_ds[<<>>]
    IN  /\ \A i \in DOMAIN group :
             LET v == group[i]
             IN  IF startswith(v.name, "sg_cal")
                 THEN Holds(scalars.sg_cal, WithoutPrefix(v.name), v)
                 ELSE IF startswith(v.name, "log_")
                 THEN Holds(scalars.dc_log, v.name, v)
                 ELSE Holds(scalars.dc_other, v.name, v)
        /\ Cardinality(DOMAIN scalars.sg_cal) + Cardinality(DOMAIN scalars.dc_log)
             + Cardinality(DOMAIN scalars.dc_other) = Len(group)

\* rename_variables has returned and nothing has run after it
Renamed == pc = "assign_variable_attributes"

\* the group of the measurement axis as it was given to the normalizer
RawGroup == as_maps(split_ds[<<"sg_data_point">>])

\* the field now called name_now has the values and the attributes that the
\* field called name_raw had in the raw group
SameField(name_raw, name_now) ==
  /\ name_now \in DOMAIN renamed_ds
  /\ renamed_ds[name_now] = RawGroup.values[name_raw]
  /\ attrs[name_now] = RawGroup.attrs[name_raw]

\* C15: for every entry of the rename table and each of the four variants
\* (bare, _qc, _raw, _raw_qc, mapped to the canonical name with the
\* upper-cased suffix): when the target name is already in the record the
\* rename is skipped, the source keeps its name and values and the field that
\* had the target name is unchanged; when the target is not in the record and
\* the source is, the source is found under the target name.
C15_RenameSkipsExisting ==
  Renamed =>
    \A k \in DOMAIN standard_names, j \in DOMAIN suffixes :
      LET variant == standard_names[k][1] \o suffixes[j]
          target == standard_names[k][2] \o upper(suffixes[j])
          fields == DOMAIN RawGroup.values
      IN  /\ target \in fields =>
                /\ SameField(target, target)
                /\ variant \in fields => SameField(variant, variant)
          /\ (target \notin fields /\ variant \in fields) =>
                /\ SameField(variant, target)
                /\ variant \notin DOMAIN renamed_ds

\* a record with temperature, TEMP and temperature_qc: the first rename is
\* skipped, the second is done
C15_Witness ==
  /\ Renamed
  /\ DOMAIN RawGroup.values = {"temperature", "TEMP", "temperature_qc"}
  /\ DOMAIN renamed_ds = {"temperature", "TEMP", "TEMP_QC"}
  /\ renamed_ds["temperature"] # renamed_ds["TEMP"]
  /\ "Warning: Variable 'TEMP' already exists in the dataset." \in printed

\* the mismatch messages of the attributes of a dataset that differ from the
\* value the vocabulary expects
Conflicts(var_attrs) ==
  UNION {{mismatch_msg(var, attr, var_attrs[var][attr], vocab_attrs[var][attr]) :
            attr \in {a \in DOMAIN vocab_attrs[var] :
                        a \in DOMAIN var_attrs[var] /\ var_attrs[var][a] # vocab_attrs[var][a]}} :
           var \in DOMAIN vocab_attrs \cap DOMAIN var_attrs}

\* the messages of the renames whose target is a field of the raw group
Collisions ==
  {"Warning: Variable '" \o target \o "' already exists in the dataset." :
     target \in {standard_names[k][2] \o upper(suffixes[j]) :
                   k \in DOMAIN standard_names, j \in DOMAIN suffixes}
                \cap DOMAIN RawGroup.values}

\* C16 as stated: every warning met while the record is processed, of an
\* attribute conflict, of a rename whose target exists, of a missing legacy
\* dimension, is in the warnings returned by process_dataset.
C16_AllWarningsReturned == Returned => (printed \cup logged) \subseteq attr_warnings

\* C16 amended: only the attribute conflicts are accumulated and returned:
\* when assign_variable_attributes returns, attr_warnings holds the message
\* of every conflicting attribute and nothing else, and it is what
\* process_dataset returns; the message of a rename whose target exists is
\* printed and is not in the returned warnings; the warning of a missing
\* legacy dimension is never issued while a record is processed.
C16_OnlyAttributeWarningsReturned ==
  /\ pc = "convert_units" => attr_warnings = Conflicts(attrs)
  /\ Returned =>
       /\ printed \ attr_warnings = Collisions
       /\ attr_warnings \subseteq printed
       /\ logged = {}

\* a record with temperature and TEMP, the latter in kelvin: a conflict is
\* returned, a collision is printed and not returned
C16_Witness ==
  /\ Returned
  /\ mismatch_msg("TEMP", "units", "K", "Celsius") \in attr_warnings
  /\ "Warning: Variable 'TEMP' already exists in the dataset." \in printed \ attr_warnings

\* assign_variable_attributes has returned and nothing has run after it
Assigned == pc = "convert_units"

\* the dataset as assign_variable_attributes received it, and its attributes
ReceivedDs ==
  rename_variables(rename_dimensions(RawGroup, dims_rename_dict).ds, standard_names).ds

Received == ReceivedDs.attrs

\* the canonical spelling of a unit string, the string itself when it has none
Reformatted(value) == IF value \in DOMAIN unit_str_format THEN unit_str_format[value] ELSE value

\* the attributes of the vocabulary that a field had with another value
ConflictsOf(var) ==
  {attr \in DOMAIN vocab_attrs[var] \cap DOMAIN Received[var] :
     Received[var][attr] # vocab_attrs[var][attr]}

\* C17 as stated: an attribute of the vocabulary missing on a field is
\* added; one already present with a conflicting value keeps its value
\* unchanged, and there is exactly one warning for every (field, attribute)
\* conflict.
C17_ConflictKeepsValue ==
  Assigned =>
    /\ \A var \in DOMAIN attrs \cap DOMAIN vocab_attrs :
         \A attr \in DOMAIN vocab_attrs[var] :
           /\ attr \notin DOMAIN Received[var] => attrs[var][attr] = vocab_attrs[var][attr]
           /\ attr \in ConflictsOf(var) => attrs[var][attr] = Received[var][attr]
    /\ Cardinality(attr_warnings) =
         Cardinality(UNION {{<<var, attr>> : attr \in ConflictsOf(var)} :
                              var \in DOMAIN attrs \cap DOMAIN vocab_attrs})

\* C17 amended: an attribute of the vocabulary missing on a field is added
\* with the expected value; one already present is first rewritten to the
\* canonical spelling when its value is a key of unit_str_format and is not
\* changed otherwise; there is exactly one warning for every (field,
\* attribute) whose value after that rewriting differs from the expected
\* one, and the warning names the rewritten value; fields and attributes
\* outside the vocabulary and all values are left alone.
C17_ConflictKeepsReformatted ==
  Assigned =>
    /\ DOMAIN attrs = DOMAIN Received
    /\ \A var \in DOMAIN attrs :
         IF var \in DOMAIN vocab_attrs
         THEN /\ DOMAIN attrs[var] = DOMAIN Received[var] \cup DOMAIN vocab_attrs[var]
              /\ \A attr \in DOMAIN attrs[var] :
                   IF attr \notin DOMAIN vocab_attrs[var] THEN attrs[var][attr] = Received[var][attr]
                   ELSE IF attr \notin DOMAIN Received[var]
                        THEN attrs[var][attr] = vocab_attrs[var][attr]
                        ELSE attrs[var][attr] = Reformatted(Received[var][attr])
         ELSE attrs[var] = Received[var]
    /\ attr_warnings =
         UNION {{mismatch_msg(var, attr, Reformatted(Received[var][attr]), vocab_attrs[var][attr]) :
                   attr \in {a \in DOMAIN vocab_attrs[var] \cap DOMAIN Received[var] :
                               Reformatted(Received[var][a]) # vocab_attrs[var][a]}} :
                  var \in DOMAIN attrs \cap DOMAIN vocab_attrs}
    /\ renamed_ds = ReceivedDs.values

\* a vertical speed in cm/s: the units are rewritten to cm s-1, the conflict
\* with m s-1 is reported, the missing long_name is added
C17_Witness ==
  /\ Assigned
  /\ "GLIDER_VERT_VELO_MODEL" \in DOMAIN attrs
  /\ Received["GLIDER_VERT_VELO_MODEL"] = [units |-> "cm/s"]
  /\ attrs["GLIDER_VERT_VELO_MODEL"] = [units |-> "cm s-1", long_name |-> "Vertical glider speed"]
  /\ attr_warnings = {mismatch_msg("GLIDER_VERT_VELO_MODEL", "units", "cm s-1", "m s-1")}

\* convert_units has returned and nothing has run after it
Converted == pc = "add_gps_info_to_dataset" /\ split_ds # <<>>

\* the dataset as convert_units received it
UnconvertedDs == assign_variable_attributes(ReceivedDs, vocab_attrs, unit_str_format).ds

\* the units attribute of a field, "" when it has none
UnitsOf(var_attrs, var) == IF "units" \in DOMAIN var_attrs[var] THEN var_attrs[var].units ELSE ""

\* new is old multiplied by the factor
Scaled(old, new, factor) ==
  /\ DOMAIN new = DOMAIN old
  /\ \A i \in DOMAIN old :
       IF old[i] = NaN THEN new[i] = NaN
       ELSE new[i] # NaN /\ new[i] * factor.den = old[i] * factor.num

\* C18: convert_units multiplies the values of a field by the factor of the
\* table entry of its declared unit and sets its units to the target unit of
\* that entry if and only if the declared unit is a key of the table and the
\* target unit is a preferred unit; every other field keeps its values and
\* its units.
C18_RescaledIffPreferredTarget ==
  Converted =>
    /\ DOMAIN renamed_ds = DOMAIN UnconvertedDs.values
    /\ \A var \in DOMAIN renamed_ds :
         LET unit == UnitsOf(UnconvertedDs.attrs, var)
         IN  IF unit \in DOMAIN unit_conversion
                  /\ unit_conversion[unit].units_name \in preferred_units
             THEN /\ Scaled(UnconvertedDs.values[var], renamed_ds[var], unit_conversion[unit].factor)
                  /\ UnitsOf(attrs, var) = unit_conversion[unit].units_name
             ELSE /\ renamed_ds[var] = UnconvertedDs.values[var]
                  /\ UnitsOf(attrs, var) = unit

\* a vertical speed in cm s-1 is rescaled to m s-1, a field in cm/s, whose
\* target m/s is not preferred, is left alone
C18_Witness ==
  /\ Converted
  /\ {"GLIDER_VERT_VELO_MODEL", "TEMP_QC"} \subseteq DOMAIN renamed_ds
  /\ UnitsOf(UnconvertedDs.attrs, "GLIDER_VERT_VELO_MODEL") = "cm s-1"
  /\ UnitsOf(attrs, "GLIDER_VERT_VELO_MODEL") = "m s-1"
  /\ UnconvertedDs.values["GLIDER_VERT_VELO_MODEL"] = <<30000>>
  /\ renamed_ds["GLIDER_VERT_VELO_MODEL"] = <<300>>
  /\ UnitsOf(attrs, "TEMP_QC") = "cm/s"
  /\ renamed_ds["TEMP_QC"] = UnconvertedDs.values["TEMP_QC"]

\* convert_units has run a second time
ConvertedAgain == pc = "converted_again"

\* C19: running convert_units again on a converted stream changes no value
\* and no units attribute of any field.
C19_SecondRunChangesNothing ==
  ConvertedAgain =>
    /\ renamed_ds = before.values
    /\ \A var \in DOMAIN renamed_ds : UnitsOf(attrs, var) = UnitsOf(before.attrs, var)

\* the first run has rescaled a pressure from Pa to dbar, the second run has
\* left it alone
C19_Witness ==
  /\ ConvertedAgain
  /\ \E var \in DOMAIN renamed_ds :
       /\ UnitsOf(UnconvertedDs.attrs, var) = "Pa"
       /\ UnitsOf(attrs, var) = "dbar"
       /\ renamed_ds[var] # UnconvertedDs.values[var]
       /\ renamed_ds[var] = before.values[var]

\* the value and the unit are those the field had before the two conversions
RoundTrip ==
  /\ renamed_ds = before.values
  /\ \A var \in DOMAIN renamed_ds : UnitsOf(attrs, var) = UnitsOf(before.attrs, var)

\* C20: for every declared conversion pair the table declares the inverse
\* pair, and converting a value with the pair and back with the inverse pair
\* returns the original value.
C20_InverseRoundTrip ==
  /\ pc # "no_inverse"
  /\ pc = "round_trip" => RoundTrip

\* where the inverse pair is declared, the round trip returns the original
\* value and unit
RoundTripWhereInverse == pc = "round_trip" => RoundTrip

\* the one declared pair without an inverse pair: dbar to kPa
OnlyPressureWithoutInverse ==
  pc = "no_inverse" =>
    unit_conversion = [u \in {"dbar"} |-> [units_name |-> "kPa", factor |-> Factor(10, 1)]]

\* the fields that calc_Z asks for
DepthInputs == {"PRES", "LATITUDE", "LONGITUDE"}

Reconciled == pc \in {"updated", "updated_again"}

\* C22: in the metadata that update_dataset_attributes returns, every
\* attribute of attr_to_add is there with the value of attr_to_add, whatever
\* the metadata of the input has under its name.
C22_AddSetWins ==
  Reconciled =>
    \A i \in DOMAIN attr_to_add :
      /\ dict_has(ordered_attributes, attr_to_add[i][1])
      /\ dict_get(ordered_attributes, attr_to_add[i][1]) = attr_to_add[i][2]

\* the input has another title than attr_to_add and the returned metadata has
\* the title of attr_to_add
C22_Witness ==
  /\ pc = "updated"
  /\ dict_has(ds_attrs.text, "title")
  /\ dict_get(ds_attrs.text, "title") # dict_get(attr_to_add, "title")
  /\ dict_get(ordered_attributes, "title") = "OceanGliders trajectory file"

\* ------------------------------------------------------------------------
\* the merged attributes of update_dataset_attributes, before the reordering
Merged ==
  dict_merge(dict_merge(dict_merge(dict_merge(dict_merge(attr_to_add,
    get_contributors(ds_attrs, values_to_append)), get_time_attributes(ds_attrs, now)),
    extract_attr_to_rename(ds_attrs, attr_to_rename)),
    extract_attr_to_keep(ds_attrs, attr_as_is)), attr_to_add)

\* the place of a key in a list of keys
PlaceOf(keys, key) == CHOOSE i \in DOMAIN keys : keys[i] = key

\* C23: the returned metadata has first the attributes that order_of_attr
\* names, in the order of order_of_attr, then the other attributes in the
\* order of their insertion; it has every attribute of the merged set once,
\* with its value.
C23_CanonicalThenInsertionOrder ==
  pc = "updated" =>
    LET keys == dict_keys(ordered_attributes)
        merged == Merged
        merged_keys == dict_keys(merged)
        canonical == Range(order_of_attr)
        listed == Cardinality({i \in DOMAIN keys : keys[i] \in canonical})
    IN  /\ \A i \in DOMAIN keys : (keys[i] \in canonical) <=> i <= listed
        /\ \A i \in 1..(listed - 1) :
             PlaceOf(order_of_attr, keys[i]) < PlaceOf(order_of_attr, keys[i + 1])
        /\ \A i \in (listed + 1)..(Len(keys) - 1) :
             PlaceOf(merged_keys, keys[i]) < PlaceOf(merged_keys, keys[i + 1])
        /\ Range(ordered_attributes) = Range(merged)
        /\ Len(ordered_attributes) = Len(merged)
        /\ Cardinality(Range(keys)) = Len(keys)

\* the merged set has two attributes of order_of_attr in another order than
\* order_of_attr, and two attributes that order_of_attr does not name
C23_Witness ==
  /\ pc = "updated"
  /\ \E i, j \in DOMAIN Merged :
       /\ i < j
       /\ Merged[i][1] \in Range(order_of_attr) /\ Merged[j][1] \in Range(order_of_attr)
       /\ PlaceOf(order_of_attr, Merged[j][1]) < PlaceOf(order_of_attr, Merged[i][1])
  /\ \E i \in DOMAIN ordered_attributes :
       /\ i < Len(ordered_attributes)
       /\ ordered_attributes[i][1] \notin Range(order_of_attr)
  /\ dict_has(ordered_attributes, "site")

\* ------------------------------------------------------------------------
\* C24: update_dataset_attributes called on the metadata it returned, with
\* no contributor values to append and at the same time of the clock,
\* returns that metadata: the same attributes, values and order.
C24_SecondCallSameMetadata ==
  (pc \in {"updated_again", "error_again"} /\ values_to_append = None /\ now = Clock) =>
    /\ pc = "updated_again"
    /\ reconciled_again = ordered_attributes

\* ------------------------------------------------------------------------
\* the number of entries of a comma-separated string
Entries(str) ==
  Cardinality({i \in 1..(Len(str) - 1) : SubSeq(str, i, i + 1) = ", "}) + 1

\* the lists of get_contributors on the input, before they are joined
Lists == contributor_lists(ds_attrs, values_to_append)

\* no entry of the contributor lists has a comma
NoCommaInEntries ==
  pc = "updated" =>
    \A key \in Range(contributor_keys) : \A i \in DOMAIN Lists[key] : ~contains(Lists[key][i], ",")

\* C25: the contributor and the institution attributes that get_contributors
\* returns have the same number of comma-separated entries, also after the
\* values of contrib_to_append are appended, and no entry has a comma.
C25_ParallelListsEqualLength ==
  pc = "updated" =>
    /\ \A key \in Range(contributor_keys) :
         /\ Len(Lists[key]) = Len(Lists["contributor_name"])
         /\ Entries(dict_get(ordered_attributes, key))
              = Entries(dict_get(ordered_attributes, "contributor_name"))
    /\ NoCommaInEntries

\* the lists have the length of names
EqualLength == \A key \in Range(contributor_keys) : Len(Lists[key]) = Len(Lists["contributor_name"])

\* with no values to append the lists of these inputs have equal length
EqualLengthWithoutAppend ==
  pc = "updated" /\ values_to_append = None => EqualLength

\* with contrib_to_append the role vocabulary is never appended: the lists
\* have unequal length
UnequalLengthWithAppend ==
  pc = "updated" /\ values_to_append = contrib_to_append =>
    Len(Lists["contributor_role_vocabulary"]) < Len(Lists["contributor_email"])

\* ------------------------------------------------------------------------
\* the compact form of a time: no '-', ':' or '_' and no 'Z' at the end
Compact(str) ==
  /\ ~contains(str, "-") /\ ~contains(str, ":") /\ ~contains(str, "_")
  /\ ~(Len(str) > 0 /\ SubSeq(str, Len(str), Len(str)) = "Z")

TimeLike == {"time_coverage_start", "time_coverage_end", "date_created", "start_date"}

\* C26: every time attribute of the returned metadata is in the compact
\* form, and start_date is the returned time_coverage_start when the input
\* has no start_time.
C26_TimeAttributesCompact ==
  pc = "updated" =>
    /\ \A attr \in TimeLike :
         dict_has(ordered_attributes, attr) => Compact(dict_get(ordered_attributes, attr))
    /\ ~attrs_has(ds_attrs, "start_time") =>
         dict_get(ordered_attributes, "start_date") = dict_get(ordered_attributes, "time_coverage_start")

\* start_date is the returned time_coverage_start when the input has no
\* start_time, and the formatted start_time when it has one
StartDateDefault ==
  pc = "updated" =>
    dict_get(ordered_attributes, "start_date") =
      IF attrs_has(ds_attrs, "start_time")
      THEN strftime(dict_get(ds_attrs.number, "start_time"))
      ELSE dict_get(ordered_attributes, "time_coverage_start")

\* the date_created of the input is returned as it is: the attributes kept
\* as they are overwrite the cleaned time attributes
DateCreatedKept ==
  pc = "updated" /\ dict_has(ds_attrs.text, "date_created") =>
    dict_get(ordered_attributes, "date_created") = dict_get(ds_attrs.text, "date_created")

\* a time with a '-' or a ':' is returned in the compact form, unless it is
\* date_created
CleanedWhenDashed ==
  pc = "updated" =>
    \A attr \in {"time_coverage_start", "time_coverage_end"} :
      (dict_has(ds_attrs.text, attr)
         /\ (contains(dict_get(ds_attrs.text, attr), "-") \/ contains(dict_get(ds_attrs.text, attr), ":")))
        => Compact(dict_get(ordered_attributes, attr))

\* ------------------------------------------------------------------------
\* the first and the second valid GPS index of the range of d
FirstFix(ds, d) == SetMin(GpsIndices(ds, d))

SecondFix(ds, d) == SetMin(GpsIndices(ds, d) \ {FirstFix(ds, d)})

AllNaN(ds, d) == \A i \in Start(ds, d)..End(ds, d) : ds["PRES"][i] = NaN

HasIdentifier(ds) == DOMAIN ds \cap {"dive_number", "divenum", "dive_num"} # {}

PhaseCalled == pc # "assign_phase"

\* C29: assign_phase returns on a stream with a dive identifier and the fix
\* times, and then every index has PHASE 1, 2 or 3 and PHASE_QC 0; on a
\* stream without dive_number, divenum and dive_num it raises and the stream
\* has neither PHASE nor PHASE_QC.
C29_EveryIndexLabelled ==
  PhaseCalled =>
    /\ (HasIdentifier(ds_new) /\ "TIME_GPS" \in DOMAIN ds_new) =>
         /\ pc = "done"
         /\ \A i \in 1..dims(ds_new) :
              ds_new["PHASE"][i] \in {1, 2, 3} /\ ds_new["PHASE_QC"][i] = 0
    /\ ~HasIdentifier(ds_new) =>
         /\ pc = "error"
         /\ "PHASE" \notin DOMAIN ds_new /\ "PHASE_QC" \notin DOMAIN ds_new

\* a stream with the identifier dive_num that has a descent, an ascent and
\* a surface record
C29_Witness ==
  /\ pc = "done"
  /\ "dive_num" \in DOMAIN ds_new
  /\ {ds_new["PHASE"][i] : i \in 1..dims(ds_new)} = {1, 2, 3}
  /\ \A i \in 1..dims(ds_new) : ds_new["PHASE_QC"][i] = 0

\* without the fix times assign_phase raises after it has assigned PHASE
\* and PHASE_QC to the stream of the caller
PhaseAssignedBeforeKeyError ==
  (PhaseCalled /\ HasIdentifier(ds_new) /\ "TIME_GPS" \notin DOMAIN ds_new /\ dims(ds_new) > 0) =>
    pc = "error" /\ "PHASE" \in DOMAIN ds_new /\ "PHASE_QC" \in DOMAIN ds_new

\* ------------------------------------------------------------------------
\* the valid form of a filename, read off its characters: p, seven digits,
\* possibly _ and eight digits, .nc, with a serial number and a dive number
\* above 0
ValidName(name) ==
  /\ Len(name) \in {11, 20}
  /\ SubSeq(name, 1, 1) = "p"
  /\ all_digits(SubSeq(name, 2, 8))
  /\ SubSeq(name, Len(name) - 2, Len(name)) = ".nc"
  /\ Len(name) = 20 => SubSeq(name, 9, 9) = "_" /\ all_digits(SubSeq(name, 10, 17))
  /\ int(SubSeq(name, 2, 4)) > 0
  /\ int(SubSeq(name, 5, 8)) > 0

\* the dive number of a valid name lies between the bounds that are given
InRange(name) ==
  /\ start_profile # NoProfile => start_profile <= int(SubSeq(name, 5, 8))
  /\ end_profile # NoProfile => int(SubSeq(name, 5, 8)) <= end_profile

Filtered == pc # "filter_files_by_profile"

\* C30: filter_files_by_profile returns, in the order of the list given, the
\* names of the list that are valid and whose dive number lies between
\* start_profile and end_profile; an invalid name never makes it raise.
C30_ValidNamesInRange ==
  Filtered =>
    /\ pc = "filtered"
    /\ filtered_files = SelectSeq(files_given, LAMBDA name : ValidName(name) /\ InRange(name))

\* no invalid name of the list follows another invalid name
NoInvalidNeighbours(lst) ==
  \A i \in 1..(Len(lst) - 1) : ValidName(lst[i]) \/ ValidName(lst[i + 1])

\* the selection is right for a list without two invalid names in a row
RightWithoutInvalidNeighbours ==
  (Filtered /\ NoInvalidNeighbours(files_given)) =>
    /\ pc = "filtered"
    /\ filtered_files = SelectSeq(files_given, LAMBDA name : ValidName(name) /\ InRange(name))
    /\ file_list = SelectSeq(files_given, ValidName)

\* the name after a removed name is not examined: of two invalid names in a
\* row the second stays in the list
SecondInvalidNameStays ==
  (Filtered /\ Len(files_given) = 2 /\ ~ValidName(files_given[1]) /\ ~ValidName(files_given[2])
     /\ files_given[1] # files_given[2]) =>
    file_list = <<files_given[2]>>

====
